---- MODULE Spec2Model ----
(***************************************************************************)
(* Time inference and validation for newly entered facts of dob:           *)
(* must_complete_times (src/dob/helpers/fix_times.py) and the Fact Intake  *)
(* flow around it.                                                         *)
(*                                                                         *)
(* A timestamp is a number of minutes; At(d, h, m) is hh:mm on day d, and  *)
(* day 1 is 2020-01-01.  A start/end field is a tagged value:              *)
(*   "none"  blank (Python None)                                           *)
(*   "dt"    a concrete datetime, v = the timestamp                        *)
(*   "clock" a clock-time string, v = minutes since midnight               *)
(*   "plus"  a relative-delta string "+v" (or an unsigned "v")             *)
(*   "minus" a relative-delta string "-v"                                  *)
(*   "text"  a string that is neither a clock time nor a delta             *)
(***************************************************************************)
EXTENDS Integers, Sequences, FiniteSets, TLC

\* Longest batch of new facts.
MaxFacts == 2

\* Largest number of fields of a batch that are not concrete on entry.
MaxRelative == 2

MinutesPerDay == 1440

MinutesPerHour == 60

At(d, h, m) == d * MinutesPerDay + h * MinutesPerHour + m

None == [k |-> "none", v |-> 0]

Dt(t) == [k |-> "dt", v |-> t]

Clock(c) == [k |-> "clock", v |-> c]

Plus(m) == [k |-> "plus", v |-> m]

Minus(m) == [k |-> "minus", v |-> m]

Text == [k |-> "text", v |-> 0]

\* isinstance(x, datetime)
IsDatetime(x) == x.k = "dt"

\* Reference to no fact (the `other` of a self-contained conflict).
NoFact == [src |-> "none", i |-> 0]

NewRef(i) == [src |-> "new", i |-> i]

\* A stored fact is referred to by its primary key.
SavedRef(f) == [src |-> "saved", i |-> f.pk]

\* The absent stored fact (antecedent()/subsequent() returned None).
NoStored == [pk |-> 0, start |-> None, end |-> None]

getattr(fact, which) == IF which = "start" THEN fact.start ELSE fact.end

setattr(facts, i, which, val) ==
  [facts EXCEPT ![i] = IF which = "start" THEN [@ EXCEPT !.start = val]
                                          ELSE [@ EXCEPT !.end = val]]

Conflict(i, other, msg, which) ==
  [fact |-> i, other |-> other, msg |-> msg, which |-> which]

----
\* The facts store (external): nearest stored fact before / after ref_time.

AnteKey(s) == IF IsDatetime(s.end) THEN s.end.v ELSE s.start.v

store_antecedent(st, ref_time) ==
  LET cands == {s \in st : AnteKey(s) <= ref_time}
  IN  IF cands = {} THEN NoStored
      ELSE CHOOSE s \in cands : \A o \in cands : AnteKey(o) <= AnteKey(s)

store_subsequent(st, ref_time) ==
  LET cands == {s \in st : s.start.v >= ref_time}
  IN  IF cands = {} THEN NoStored
      ELSE CHOOSE s \in cands : \A o \in cands : s.start.v <= o.start.v

----
\* nark.helpers.dated (external): clock times and relative minutes.

parse_clock_time(x) == IF x.k = "clock" THEN x.v ELSE -1

IsDelta(x) == x.k \in {"plus", "minus"}

\* delta_mins of parse_relative_minutes: signed minutes.
delta_mins_of(x) == IF x.k = "minus" THEN 0 - x.v ELSE x.v

\* delta_minus of parse_relative_minutes.
delta_minus_of(x) == x.k = "minus"

ReplaceClock(dt, clock_time) == (dt \div MinutesPerDay) * MinutesPerDay + clock_time

datetime_from_clock_prior(dt_relative, clock_time) ==
  LET new_dt == ReplaceClock(dt_relative, clock_time)
  IN  IF new_dt > dt_relative THEN new_dt - MinutesPerDay ELSE new_dt

datetime_from_clock_after(dt_relative, clock_time) ==
  LET new_dt == ReplaceClock(dt_relative, clock_time)
  IN  IF new_dt < dt_relative THEN new_dt + MinutesPerDay ELSE new_dt

\* datetime.replace raises on an hour or minute out of range.
ClockRaises(clock_time) == clock_time < 0 \/ clock_time >= MinutesPerDay

----
\* must_complete_times: anchors and cursors.

RECURSIVE antecedent_ref(_, _)
\* The ref_time antecedent_fact looks up, or None: first concrete
\* timestamp scanning the batch forward from fact i.
antecedent_ref(facts, i) ==
  IF i > Len(facts) THEN None
  ELSE IF IsDatetime(facts[i].start) THEN facts[i].start
  ELSE IF IsDatetime(facts[i].end) THEN facts[i].end
  ELSE antecedent_ref(facts, i + 1)

RECURSIVE subsequent_ref_start_first(_, _)
\* Mutant: the backward scan looks at a fact's start before its end.
subsequent_ref_start_first(facts, i) ==
  IF i < 1 THEN None
  ELSE IF IsDatetime(facts[i].start) THEN facts[i].start
  ELSE IF IsDatetime(facts[i].end) THEN facts[i].end
  ELSE subsequent_ref_start_first(facts, i - 1)

RECURSIVE subsequent_ref(_, _)
\* The ref_time subsequent_fact looks up, or None: first concrete
\* timestamp scanning the batch backward from fact i.
subsequent_ref(facts, i) ==
  IF i < 1 THEN None
  ELSE IF IsDatetime(facts[i].end) THEN facts[i].end
  ELSE IF IsDatetime(facts[i].start) THEN facts[i].start
  ELSE subsequent_ref(facts, i - 1)

\* Mutant: with no concrete timestamp in the batch, the latest stored fact
\* is taken as antecedent.
antecedent_fact_latest(st, facts) ==
  LET ref == antecedent_ref(facts, 1)
      latest == {s \in st : \A o \in st : AnteKey(o) <= AnteKey(s)}
  IN  IF IsDatetime(ref) THEN store_antecedent(st, ref.v)
      ELSE IF latest = {} THEN NoStored
      ELSE CHOOSE s \in latest : TRUE

antecedent_fact(st, facts) ==
  LET ref == antecedent_ref(facts, 1)
  IN  IF IsDatetime(ref) THEN store_antecedent(st, ref.v) ELSE NoStored

\* Mutant: with no concrete timestamp in the batch, the earliest stored fact
\* is taken as subsequent.
subsequent_fact_earliest(st, facts) ==
  LET ref == subsequent_ref(facts, Len(facts))
      earliest == {s \in st : \A o \in st : s.start.v <= o.start.v}
  IN  IF IsDatetime(ref) THEN store_subsequent(st, ref.v)
      ELSE IF earliest = {} THEN NoStored
      ELSE CHOOSE s \in earliest : TRUE

subsequent_fact(st, facts) ==
  LET ref == subsequent_ref(facts, Len(facts))
  IN  IF IsDatetime(ref) THEN store_subsequent(st, ref.v) ELSE NoStored

\* The facts after fact i, then the subsequent: later_facts after pop(0).
LaterFacts(facts, i, seqt) ==
  [j \in 1..(Len(facts) - i) |->
      [ref |-> NewRef(i + j), start |-> facts[i + j].start, end |-> facts[i + j].end]]
  \o (IF seqt = NoStored THEN <<>>
      ELSE <<[ref |-> SavedRef(seqt), start |-> seqt.start, end |-> seqt.end]>>)

\* Mutant: the open antecedent is let through.
prev_and_later_no_assert(facts, ante, seqt, okay) ==
  [ok |-> ~(seqt # NoStored /\ ~IsDatetime(seqt.start)),
   prev_time |-> IF ante # NoStored /\ ante.end # None THEN ante.end ELSE None]

\* Mutant: without ongoing_okay a first fact with no end fails the assertion.
prev_and_later_first_end_required(facts, ante, seqt, okay) ==
  [ok |-> /\ ~(ante # NoStored /\ ante.end = None
               /\ ~okay /\ Len(facts) = 1 /\ seqt = NoStored)
          /\ ~(~okay /\ facts # <<>> /\ Head(facts).end = None)
          /\ ~(seqt # NoStored /\ ~IsDatetime(seqt.start)),
   prev_time |-> IF ante # NoStored /\ ante.end # None THEN ante.end ELSE None]

\* Mutant: the open antecedent of a single fact fails whatever ongoing_okay is.
prev_and_later_asserts_always(facts, ante, seqt, okay) ==
  [ok |-> /\ ~(ante # NoStored /\ ante.end = None
               /\ Len(facts) = 1 /\ seqt = NoStored)
          /\ ~(seqt # NoStored /\ ~IsDatetime(seqt.start)),
   prev_time |-> IF ante # NoStored /\ ante.end # None THEN ante.end ELSE None]

\* Mutant: an antecedent with no end seeds prev_time with its start.
prev_and_later_seeds_start(facts, ante, seqt, okay) ==
  [ok |-> /\ ~(ante # NoStored /\ ante.end = None
               /\ ~okay /\ Len(facts) = 1 /\ seqt = NoStored)
          /\ ~(seqt # NoStored /\ ~IsDatetime(seqt.start)),
   prev_time |-> IF ante = NoStored THEN None
                 ELSE IF ante.end # None THEN ante.end ELSE ante.start]

\* prev_and_later: ok is FALSE when an assertion fails.
prev_and_later(facts, ante, seqt, okay) ==
  [ok |-> /\ ~(ante # NoStored /\ ante.end = None
               /\ ~okay /\ Len(facts) = 1 /\ seqt = NoStored)
          /\ ~(seqt # NoStored /\ ~IsDatetime(seqt.start)),
   prev_time |-> IF ante # NoStored /\ ante.end # None THEN ante.end ELSE None]

RECURSIVE find_next_datetime(_)
find_next_datetime(later) ==
  IF later = <<>> THEN [t |-> None, f |-> NoFact]
  ELSE IF IsDatetime(Head(later).start) THEN [t |-> Head(later).start, f |-> Head(later).ref]
  ELSE IF IsDatetime(Head(later).end) THEN [t |-> Head(later).end, f |-> Head(later).ref]
  ELSE find_next_datetime(Tail(later))

----
\* Pass 1: clock times.

infer_from_clock_prior(dt_oppo, clock_time) ==
  IF ClockRaises(clock_time) THEN None
  ELSE Dt(datetime_from_clock_prior(dt_oppo.v, clock_time))

infer_from_clock_after(dt_oppo, clock_time) ==
  IF ClockRaises(clock_time) THEN None
  ELSE Dt(datetime_from_clock_after(dt_oppo.v, clock_time))

\* Mutant: a clock time that cannot be resolved also clears prev_time.
infer_datetime_from_clock_failure_resets_cursor(clock_time, r, i, which, later) ==
  LET dt_oppo == getattr(r.facts[i], IF which = "start" THEN "end" ELSE "start")
      next == find_next_datetime(later)
      dt_suss ==
        IF IsDatetime(dt_oppo)
        THEN IF which = "start" THEN infer_from_clock_prior(dt_oppo, clock_time)
                                ELSE infer_from_clock_after(dt_oppo, clock_time)
        ELSE IF r.prev_time # None
        THEN infer_from_clock_after(r.prev_time, clock_time)
        ELSE IF next.t # None THEN infer_from_clock_prior(next.t, clock_time)
        ELSE None
  IN  IF dt_suss # None
      THEN [r EXCEPT !.facts = setattr(r.facts, i, which, dt_suss),
                     !.prev_time = dt_suss]
      ELSE [r EXCEPT !.conflicts =
              Append(@, Conflict(i, NoFact, "Could not decipher clock time", which)),
                     !.prev_time = None]

\* Mutant: prev_time is preferred to the fact's other time.
infer_datetime_from_clock_prev_first(clock_time, r, i, which, later) ==
  LET dt_oppo == getattr(r.facts[i], IF which = "start" THEN "end" ELSE "start")
      next == find_next_datetime(later)
      dt_suss ==
        IF r.prev_time # None
        THEN infer_from_clock_after(r.prev_time, clock_time)
        ELSE IF IsDatetime(dt_oppo)
        THEN IF which = "start" THEN infer_from_clock_prior(dt_oppo, clock_time)
                                ELSE infer_from_clock_after(dt_oppo, clock_time)
        ELSE IF next.t # None THEN infer_from_clock_prior(next.t, clock_time)
        ELSE None
  IN  IF dt_suss # None
      THEN [r EXCEPT !.facts = setattr(r.facts, i, which, dt_suss),
                     !.prev_time = dt_suss]
      ELSE [r EXCEPT !.conflicts =
              Append(@, Conflict(i, NoFact, "Could not decipher clock time", which))]

\* A cursor record r = [facts, prev_time, conflicts, ok] threads a pass.
infer_datetime_from_clock(clock_time, r, i, which, later) ==
  LET dt_oppo == getattr(r.facts[i], IF which = "start" THEN "end" ELSE "start")
      next == find_next_datetime(later)
      dt_suss ==
        IF IsDatetime(dt_oppo)
        THEN IF which = "start" THEN infer_from_clock_prior(dt_oppo, clock_time)
                                ELSE infer_from_clock_after(dt_oppo, clock_time)
        ELSE IF r.prev_time # None
        THEN infer_from_clock_after(r.prev_time, clock_time)
        ELSE IF next.t # None THEN infer_from_clock_prior(next.t, clock_time)
        ELSE None
  IN  IF dt_suss # None
      THEN [r EXCEPT !.facts = setattr(r.facts, i, which, dt_suss),
                     !.prev_time = dt_suss]
      ELSE [r EXCEPT !.conflicts =
              Append(@, Conflict(i, NoFact, "Could not decipher clock time", which))]

fix_clock_time_relative(r, i, which, later) ==
  LET dt_fact == getattr(r.facts[i], which)
  IN  IF dt_fact = None THEN r
      ELSE IF IsDatetime(dt_fact) THEN [r EXCEPT !.prev_time = dt_fact]
      ELSE IF parse_clock_time(dt_fact) # -1
      THEN infer_datetime_from_clock(parse_clock_time(dt_fact), r, i, which, later)
      ELSE r

RECURSIVE clock_loop(_, _, _)
clock_loop(r, i, seqt) ==
  IF i > Len(r.facts) THEN r
  ELSE LET r1 == fix_clock_time_relative(r, i, "start", LaterFacts(r.facts, i, seqt))
           r2 == fix_clock_time_relative(r1, i, "end", LaterFacts(r1.facts, i, seqt))
       IN  clock_loop(r2, i + 1, seqt)

fix_clock_times_relative(facts, ante, seqt, cfl, okay) ==
  LET pl == prev_and_later(facts, ante, seqt, okay)
      r0 == [facts |-> facts, prev_time |-> pl.prev_time, conflicts |-> cfl, ok |-> pl.ok]
  IN  IF pl.ok THEN clock_loop(r0, 1, seqt) ELSE r0

----
\* Pass 2: relative deltas.

\* Mutant: a delta is taken from the fact's other time whenever it is concrete.
infer_datetime_from_delta_prefers_opposite(delta_mins, delta_minus, r, i, which, later) ==
  LET next == find_next_datetime(later)
      dt_oppo == getattr(r.facts[i], IF which = "start" THEN "end" ELSE "start")
      dt_suss ==
        IF IsDatetime(dt_oppo) THEN Dt(dt_oppo.v + delta_mins)
        ELSE IF ~delta_minus
        THEN IF r.prev_time # None THEN Dt(r.prev_time.v + delta_mins) ELSE None
        ELSE IF next.t # None THEN Dt(next.t.v + delta_mins)
        ELSE None
  IN  IF dt_suss # None
      THEN [r EXCEPT !.facts = setattr(r.facts, i, which, dt_suss),
                     !.prev_time = dt_suss]
      ELSE [r EXCEPT !.conflicts =
              Append(@, Conflict(i, NoFact, "Could not infer delta time", which))]

\* Mutant: a negative delta on an end is taken back from the fact's start.
infer_datetime_from_delta_end_from_start(delta_mins, delta_minus, r, i, which, later) ==
  LET next == find_next_datetime(later)
      dt_suss ==
        IF ~delta_minus
        THEN IF r.prev_time # None THEN Dt(r.prev_time.v + delta_mins) ELSE None
        ELSE IF which = "start" /\ IsDatetime(r.facts[i].end)
        THEN Dt(r.facts[i].end.v + delta_mins)
        ELSE IF next.t # None THEN Dt(next.t.v + delta_mins)
        ELSE IF which = "end" /\ IsDatetime(r.facts[i].start)
        THEN Dt(r.facts[i].start.v + delta_mins)
        ELSE None
  IN  IF dt_suss # None
      THEN [r EXCEPT !.facts = setattr(r.facts, i, which, dt_suss),
                     !.prev_time = dt_suss]
      ELSE [r EXCEPT !.conflicts =
              Append(@, Conflict(i, NoFact, "Could not infer delta time", which))]

infer_datetime_from_delta(delta_mins, delta_minus, r, i, which, later) ==
  LET next == find_next_datetime(later)
      dt_suss ==
        IF ~delta_minus
        THEN IF r.prev_time # None THEN Dt(r.prev_time.v + delta_mins) ELSE None
        ELSE IF which = "start" /\ IsDatetime(r.facts[i].end)
        THEN Dt(r.facts[i].end.v + delta_mins)
        ELSE IF next.t # None THEN Dt(next.t.v + delta_mins)
        ELSE None
  IN  IF dt_suss # None
      THEN [r EXCEPT !.facts = setattr(r.facts, i, which, dt_suss),
                     !.prev_time = dt_suss]
      ELSE [r EXCEPT !.conflicts =
              Append(@, Conflict(i, NoFact, "Could not infer delta time", which))]

\* Mutant: a string that is no delta is reported by the delta pass.
fix_delta_time_relative_flags_text(r, i, which, later) ==
  LET dt_fact == getattr(r.facts[i], which)
  IN  IF dt_fact = None THEN r
      ELSE IF IsDatetime(dt_fact) THEN [r EXCEPT !.prev_time = dt_fact]
      ELSE IF IsDelta(dt_fact)
      THEN infer_datetime_from_delta(delta_mins_of(dt_fact), delta_minus_of(dt_fact),
                                     r, i, which, later)
      ELSE [r EXCEPT !.conflicts =
              Append(@, Conflict(i, NoFact, "Could not infer delta time", which))]

fix_delta_time_relative(r, i, which, later) ==
  LET dt_fact == getattr(r.facts[i], which)
  IN  IF dt_fact = None THEN r
      ELSE IF IsDatetime(dt_fact) THEN [r EXCEPT !.prev_time = dt_fact]
      ELSE IF IsDelta(dt_fact)
      THEN infer_datetime_from_delta(delta_mins_of(dt_fact), delta_minus_of(dt_fact),
                                     r, i, which, later)
      ELSE r

RECURSIVE delta_loop(_, _, _)
delta_loop(r, i, seqt) ==
  IF i > Len(r.facts) THEN r
  ELSE LET r1 == fix_delta_time_relative(r, i, "start", LaterFacts(r.facts, i, seqt))
           r2 == fix_delta_time_relative(r1, i, "end", LaterFacts(r1.facts, i, seqt))
       IN  delta_loop(r2, i + 1, seqt)

fix_delta_times_relative(facts, ante, seqt, cfl, okay) ==
  LET pl == prev_and_later(facts, ante, seqt, okay)
      r0 == [facts |-> facts, prev_time |-> pl.prev_time, conflicts |-> cfl, ok |-> pl.ok]
  IN  IF pl.ok THEN delta_loop(r0, 1, seqt) ELSE r0

----
\* Pass 3: blanks.

\* Mutant: a leftover string is skipped without a conflict.
fix_blank_time_relative_drops_text(r, i, which, later, store_now) ==
  LET dt_fact == getattr(r.facts[i], which)
      next == find_next_datetime(later)
      dt_suss == IF which = "start" THEN r.prev_time
                 ELSE IF next.t # None THEN next.t ELSE Dt(store_now)
  IN  IF IsDatetime(dt_fact) THEN [r EXCEPT !.prev_time = dt_fact]
      ELSE IF dt_fact # None THEN r
      ELSE IF dt_suss # None
      THEN [r EXCEPT !.facts = setattr(r.facts, i, which, dt_suss),
                     !.prev_time = dt_suss]
      ELSE [r EXCEPT !.conflicts =
              Append(@, Conflict(i, NoFact, "Could not infer date left blank", which))]

\* Mutant: a blank start with no prev_time is filled from now.
fix_blank_time_relative_start_now(r, i, which, later, store_now) ==
  LET dt_fact == getattr(r.facts[i], which)
      next == find_next_datetime(later)
      dt_suss == IF which = "start"
                 THEN IF r.prev_time # None THEN r.prev_time ELSE Dt(store_now)
                 ELSE IF next.t # None THEN next.t ELSE Dt(store_now)
  IN  IF IsDatetime(dt_fact) THEN [r EXCEPT !.prev_time = dt_fact]
      ELSE IF dt_fact # None
      THEN [r EXCEPT !.conflicts =
              Append(@, Conflict(i, NoFact, "Could not translate relative date", which))]
      ELSE [r EXCEPT !.facts = setattr(r.facts, i, which, dt_suss),
                     !.prev_time = dt_suss]

\* Mutant: a string that already has a conflict is not reported again.
fix_blank_time_relative_skips_reported(r, i, which, later, store_now) ==
  LET dt_fact == getattr(r.facts[i], which)
      next == find_next_datetime(later)
      dt_suss == IF which = "start" THEN r.prev_time
                 ELSE IF next.t # None THEN next.t ELSE Dt(store_now)
      reported == \E n \in 1..Len(r.conflicts) :
                    r.conflicts[n].fact = i /\ r.conflicts[n].which = which
  IN  IF IsDatetime(dt_fact) THEN [r EXCEPT !.prev_time = dt_fact]
      ELSE IF dt_fact # None
      THEN IF reported THEN r
           ELSE [r EXCEPT !.conflicts =
                   Append(@, Conflict(i, NoFact, "Could not translate relative date", which))]
      ELSE IF dt_suss # None
      THEN [r EXCEPT !.facts = setattr(r.facts, i, which, dt_suss),
                     !.prev_time = dt_suss]
      ELSE [r EXCEPT !.conflicts =
              Append(@, Conflict(i, NoFact, "Could not infer date left blank", which))]

\* Mutant: a blank end is always filled from store.now.
fix_blank_time_relative_end_now(r, i, which, later, store_now) ==
  LET dt_fact == getattr(r.facts[i], which)
      dt_suss == IF which = "start" THEN r.prev_time ELSE Dt(store_now)
  IN  IF IsDatetime(dt_fact) THEN [r EXCEPT !.prev_time = dt_fact]
      ELSE IF dt_fact # None
      THEN [r EXCEPT !.conflicts =
              Append(@, Conflict(i, NoFact, "Could not translate relative date", which))]
      ELSE IF dt_suss # None
      THEN [r EXCEPT !.facts = setattr(r.facts, i, which, dt_suss),
                     !.prev_time = dt_suss]
      ELSE [r EXCEPT !.conflicts =
              Append(@, Conflict(i, NoFact, "Could not infer date left blank", which))]

\* Mutant: a blank start with no prev_time is left blank without a conflict.
fix_blank_time_relative_silent(r, i, which, later, store_now) ==
  LET dt_fact == getattr(r.facts[i], which)
      next == find_next_datetime(later)
      dt_suss == IF which = "start" THEN r.prev_time
                 ELSE IF next.t # None THEN next.t ELSE Dt(store_now)
  IN  IF IsDatetime(dt_fact) THEN [r EXCEPT !.prev_time = dt_fact]
      ELSE IF dt_fact # None
      THEN [r EXCEPT !.conflicts =
              Append(@, Conflict(i, NoFact, "Could not translate relative date", which))]
      ELSE IF dt_suss # None
      THEN [r EXCEPT !.facts = setattr(r.facts, i, which, dt_suss),
                     !.prev_time = dt_suss]
      ELSE r

\* Mutant: a blank end takes prev_time when there is one.
fix_blank_time_relative_end_prev(r, i, which, later, store_now) ==
  LET dt_fact == getattr(r.facts[i], which)
      next == find_next_datetime(later)
      dt_suss == IF which = "start" \/ r.prev_time # None THEN r.prev_time
                 ELSE IF next.t # None THEN next.t ELSE Dt(store_now)
  IN  IF IsDatetime(dt_fact) THEN [r EXCEPT !.prev_time = dt_fact]
      ELSE IF dt_fact # None
      THEN [r EXCEPT !.conflicts =
              Append(@, Conflict(i, NoFact, "Could not translate relative date", which))]
      ELSE IF dt_suss # None
      THEN [r EXCEPT !.facts = setattr(r.facts, i, which, dt_suss),
                     !.prev_time = dt_suss]
      ELSE [r EXCEPT !.conflicts =
              Append(@, Conflict(i, NoFact, "Could not infer date left blank", which))]

fix_blank_time_relative(r, i, which, later, store_now) ==
  LET dt_fact == getattr(r.facts[i], which)
      next == find_next_datetime(later)
      dt_suss == IF which = "start" THEN r.prev_time
                 ELSE IF next.t # None THEN next.t ELSE Dt(store_now)
  IN  IF IsDatetime(dt_fact) THEN [r EXCEPT !.prev_time = dt_fact]
      ELSE IF dt_fact # None
      THEN [r EXCEPT !.conflicts =
              Append(@, Conflict(i, NoFact, "Could not translate relative date", which))]
      ELSE IF dt_suss # None
      THEN [r EXCEPT !.facts = setattr(r.facts, i, which, dt_suss),
                     !.prev_time = dt_suss]
      ELSE [r EXCEPT !.conflicts =
              Append(@, Conflict(i, NoFact, "Could not infer date left blank", which))]

RECURSIVE blank_loop_first_conflict(_, _, _, _)
\* Mutant: the pass stops at the first conflict.
blank_loop_first_conflict(r, i, seqt, store_now) ==
  IF i > Len(r.facts) \/ r.conflicts # <<>> THEN r
  ELSE IF r.facts[i].start = None /\ r.facts[i].end = None
  THEN [r EXCEPT !.ok = FALSE]
  ELSE LET r1 == fix_blank_time_relative(r, i, "start",
                                         LaterFacts(r.facts, i, seqt), store_now)
           r2 == fix_blank_time_relative(r1, i, "end",
                                         LaterFacts(r1.facts, i, seqt), store_now)
       IN  blank_loop_first_conflict(r2, i + 1, seqt, store_now)

RECURSIVE blank_loop_end_first(_, _, _, _)
\* Mutant: the end of a fact is filled before its start.
blank_loop_end_first(r, i, seqt, store_now) ==
  IF i > Len(r.facts) THEN r
  ELSE IF r.facts[i].start = None /\ r.facts[i].end = None
  THEN [r EXCEPT !.ok = FALSE]
  ELSE LET r1 == fix_blank_time_relative(r, i, "end",
                                         LaterFacts(r.facts, i, seqt), store_now)
           r2 == fix_blank_time_relative(r1, i, "start",
                                         LaterFacts(r1.facts, i, seqt), store_now)
       IN  blank_loop_end_first(r2, i + 1, seqt, store_now)

RECURSIVE blank_loop(_, _, _, _)
blank_loop(r, i, seqt, store_now) ==
  IF i > Len(r.facts) THEN r
  ELSE IF r.facts[i].start = None /\ r.facts[i].end = None
  THEN [r EXCEPT !.ok = FALSE]
  ELSE LET r1 == fix_blank_time_relative(r, i, "start",
                                         LaterFacts(r.facts, i, seqt), store_now)
           r2 == fix_blank_time_relative(r1, i, "end",
                                         LaterFacts(r1.facts, i, seqt), store_now)
       IN  blank_loop(r2, i + 1, seqt, store_now)

fix_blank_times_relative(facts, ante, seqt, cfl, okay, store_now) ==
  LET pl == prev_and_later(facts, ante, seqt, okay)
      r0 == [facts |-> facts, prev_time |-> pl.prev_time, conflicts |-> cfl, ok |-> pl.ok]
  IN  IF pl.ok THEN blank_loop(r0, 1, seqt, store_now) ELSE r0

----
\* Pass 4: sanity.

verify_datetimes_missing_already_caught(i, cfl) ==
  \E n \in 1..Len(cfl) : cfl[n].fact = i

\* Mutant: the start is not compared with prev_time.
verify_start_unchecked(r, i) ==
  LET start == r.facts[i].start
  IN  IF start = None
      THEN [r EXCEPT !.ok = verify_datetimes_missing_already_caught(i, r.conflicts)]
      ELSE IF IsDatetime(start) THEN [r EXCEPT !.prev_time = start]
      ELSE r

\* Mutant: a start equal to prev_time is a conflict too.
verify_start_strict(r, i) ==
  LET start == r.facts[i].start
  IN  IF start = None
      THEN [r EXCEPT !.ok = verify_datetimes_missing_already_caught(i, r.conflicts)]
      ELSE IF IsDatetime(start)
      THEN [r EXCEPT !.conflicts =
                       IF r.prev_time # None /\ start.v <= r.prev_time.v
                       THEN Append(@, Conflict(i, r.prev_fact,
                                     "New fact starts before previous fact ends", "start"))
                       ELSE @,
                     !.prev_time = start]
      ELSE r

\* The start half of the loop body; r carries prev_fact as well.
verify_start(r, i) ==
  LET start == r.facts[i].start
  IN  IF start = None
      THEN [r EXCEPT !.ok = verify_datetimes_missing_already_caught(i, r.conflicts)]
      ELSE IF IsDatetime(start)
      THEN [r EXCEPT !.conflicts =
                       IF r.prev_time # None /\ start.v < r.prev_time.v
                       THEN Append(@, Conflict(i, r.prev_fact,
                                     "New fact starts before previous fact ends", "start"))
                       ELSE @,
                     !.prev_time = start]
      ELSE r

\* Mutant: the end is not compared with the next datetime.
verify_end_unchecked(r, i, later) ==
  LET end == r.facts[i].end
  IN  IF end = None
      THEN [r EXCEPT !.ok = verify_datetimes_missing_already_caught(i, r.conflicts)]
      ELSE IF IsDatetime(end) THEN [r EXCEPT !.prev_time = end]
      ELSE r

\* The end half of the loop body.
verify_end(r, i, later) ==
  LET end == r.facts[i].end
      next == find_next_datetime(later)
  IN  IF end = None
      THEN [r EXCEPT !.ok = verify_datetimes_missing_already_caught(i, r.conflicts)]
      ELSE IF IsDatetime(end)
      THEN [r EXCEPT !.conflicts =
                       IF next.t # None /\ end.v > next.t.v
                       THEN Append(@, Conflict(i, next.f,
                                     "New fact ends after next fact starts", "end"))
                       ELSE @,
                     !.prev_time = end]
      ELSE r

\* Mutant: the sanity pass mends a fact that starts after it ends.
verify_range_mends(r, i) ==
  LET f == r.facts[i]
  IN  IF IsDatetime(f.start) /\ IsDatetime(f.end) /\ f.start.v > f.end.v
      THEN [r EXCEPT !.conflicts =
              Append(@, Conflict(i, NoFact, "New fact starts after it ends", "both")),
                     !.facts = setattr(r.facts, i, "end", f.start)]
      ELSE r

\* n_datetimes == 2 and fact.start > fact.end
verify_range(r, i) ==
  LET f == r.facts[i]
  IN  IF IsDatetime(f.start) /\ IsDatetime(f.end) /\ f.start.v > f.end.v
      THEN [r EXCEPT !.conflicts =
              Append(@, Conflict(i, NoFact, "New fact starts after it ends", "both"))]
      ELSE r

RECURSIVE sanity_loop_keeps_prev_fact(_, _, _)
\* Mutant: prev_fact stays the antecedent through the loop.
sanity_loop_keeps_prev_fact(r, i, seqt) ==
  IF i > Len(r.facts) THEN r
  ELSE LET r1 == verify_start(r, i)
           r2 == IF r1.ok THEN verify_end(r1, i, LaterFacts(r.facts, i, seqt)) ELSE r1
           r3 == IF r2.ok THEN verify_range(r2, i) ELSE r2
       IN  IF r3.ok THEN sanity_loop_keeps_prev_fact(r3, i + 1, seqt)
           ELSE r3

RECURSIVE sanity_loop(_, _, _)
sanity_loop(r, i, seqt) ==
  IF i > Len(r.facts) THEN r
  ELSE LET r1 == verify_start(r, i)
           r2 == IF r1.ok THEN verify_end(r1, i, LaterFacts(r.facts, i, seqt)) ELSE r1
           r3 == IF r2.ok THEN verify_range(r2, i) ELSE r2
       IN  IF r3.ok THEN sanity_loop([r3 EXCEPT !.prev_fact = NewRef(i)], i + 1, seqt)
           ELSE r3

verify_datetimes_sanity(facts, ante, seqt, cfl, okay) ==
  LET pl == prev_and_later(facts, ante, seqt, okay)
      r0 == [facts |-> facts, prev_time |-> pl.prev_time, conflicts |-> cfl, ok |-> pl.ok,
             prev_fact |-> IF ante = NoStored THEN NoFact ELSE SavedRef(ante)]
  IN  IF pl.ok THEN sanity_loop(r0, 1, seqt) ELSE r0

----
\* Inputs: the batch, the facts store, ongoing_okay and the store's clock.

ConcreteTimes == {At(1, 10, 0), At(1, 11, 0)}

RelativeFields == {None, Clock(10 * MinutesPerHour + 30), Plus(30), Minus(30), Text}

Fields == {Dt(t) : t \in ConcreteTimes} \cup RelativeFields

\* A fact is constructed with at least one of start and end.
NewFacts == {f \in [start : Fields, end : Fields] : f.start # None \/ f.end # None}

NRelative(facts) ==
  Cardinality({<<i, w>> \in (1..Len(facts)) \X {"start", "end"} :
                 ~IsDatetime(getattr(facts[i], w))})

Batches ==
  {b \in UNION {[1..n -> NewFacts] : n \in 0..MaxFacts} : NRelative(b) <= MaxRelative}

Stored(pk, start, end) == [pk |-> pk, start |-> start, end |-> end]

StoredFacts ==
  { Stored(1, Dt(At(1, 8, 0)), Dt(At(1, 9, 0))),
    Stored(2, Dt(At(1, 10, 15)), Dt(At(1, 10, 45))),
    Stored(3, Dt(At(1, 12, 0)), Dt(At(1, 13, 0))),
    Stored(4, Dt(At(1, 9, 30)), None) }

\* Integrity of the store: closed facts do not overlap, and an open fact is
\* the last fact.
StoreIntegrity(st) ==
  /\ \A s \in st : IsDatetime(s.start) /\ (IsDatetime(s.end) => s.start.v <= s.end.v)
  /\ \A s, o \in st :
       s # o => /\ s.pk # o.pk
                /\ IsDatetime(s.end) \/ IsDatetime(o.end)
                /\ IsDatetime(s.end) => (s.end.v <= o.start.v \/
                                         (IsDatetime(o.end) /\ o.end.v <= s.start.v))

Stores == {st \in SUBSET StoredFacts : StoreIntegrity(st)}

GeneralNow == At(1, 14, 0)

GeneralInputs ==
  [facts : Batches, store : Stores, okay : BOOLEAN, now : {GeneralNow}]

\* "14:00" with end blank, a stored fact ending 2020-01-01 12:00, now 15:00.
ClockScenario ==
  [facts |-> <<[start |-> Clock(14 * MinutesPerHour), end |-> None]>>,
   store |-> {Stored(5, Dt(At(1, 11, 0)), Dt(At(1, 12, 0)))},
   okay |-> TRUE, now |-> At(1, 15, 0)]

\* start blank with end "-15", a stored fact ending 2020-01-01 09:00, now 09:30.
DeltaScenario(okay) ==
  [facts |-> <<[start |-> None, end |-> Minus(15)]>>,
   store |-> {Stored(1, Dt(At(1, 8, 0)), Dt(At(1, 9, 0)))},
   okay |-> okay, now |-> At(1, 9, 30)]

\* Two facts, the first ending "10:00" and the second starting "09:30", each
\* with its other time given.
OverlapScenario ==
  [facts |-> <<[start |-> Dt(At(1, 9, 0)), end |-> Clock(10 * MinutesPerHour)],
               [start |-> Clock(9 * MinutesPerHour + 30), end |-> Dt(At(1, 11, 0))]>>,
   store |-> {}, okay |-> FALSE, now |-> GeneralNow]

\* A fact of two leftover strings, then a fact starting "-30" before its end
\* of 11:00, over a stored fact of 10:15 to 10:45.
LeftoverScenario ==
  [facts |-> <<[start |-> Text, end |-> Text],
               [start |-> Minus(30), end |-> Dt(At(1, 11, 0))]>>,
   store |-> {Stored(2, Dt(At(1, 10, 15)), Dt(At(1, 10, 45)))},
   okay |-> FALSE, now |-> GeneralNow]

\* A fact from 10:00 to "25:00", which no day has, then a fact starting
\* "10:30".
ClockRaiseScenario ==
  [facts |-> <<[start |-> Dt(At(1, 10, 0)), end |-> Clock(25 * MinutesPerHour)],
               [start |-> Clock(10 * MinutesPerHour + 30), end |-> None]>>,
   store |-> {}, okay |-> TRUE, now |-> GeneralNow]

\* A fact from 10:00 to "-30" with no time after it, then a fact starting
\* "+30".
DeltaFailScenario ==
  [facts |-> <<[start |-> Dt(At(1, 10, 0)), end |-> Minus(30)],
               [start |-> Plus(30), end |-> None]>>,
   store |-> {}, okay |-> TRUE, now |-> GeneralNow]

\* Facts entered ahead of time: now is 10:30, the first fact starts 10:00
\* with its end blank, the second runs 11:00 to 11:30.
AheadScenario ==
  [facts |-> <<[start |-> Dt(At(1, 10, 0)), end |-> None],
               [start |-> Dt(At(1, 11, 0)), end |-> Dt(At(1, 11, 30))]>>,
   store |-> {}, okay |-> FALSE, now |-> At(1, 10, 30)]

Inputs ==
  GeneralInputs \cup {ClockScenario} \cup {DeltaScenario(o) : o \in BOOLEAN}
    \cup {OverlapScenario, LeftoverScenario, ClockRaiseScenario, DeltaFailScenario,
          AheadScenario}

----
\* mend_facts_times.

TimeHints == {"verify_none", "verify_both", "verify_start", "verify_end"}

\* The facts handed to mend_facts_times: each time is given or not.
MendFields == {None} \cup {Dt(t) : t \in ConcreteTimes}

MendFacts == [start : MendFields, end : MendFields]

MendInputs == [fact : MendFacts, time_hint : TimeHints, store : Stores, now : {GeneralNow}]

NoMend == [time_hint |-> "", orig |-> NoFact, fact |-> NoFact, leave_open |-> FALSE,
           conflicts |-> {}, returned |-> <<>>]

\* Mutant: verify_start sets start = now whether or not a start was given.
new_fact_fill_now_overwrites_start(fact, time_hint, controller_now) ==
  CASE time_hint = "verify_none" ->
         [ok |-> fact.start = None /\ fact.end = None,
          fact |-> [fact EXCEPT !.start = Dt(controller_now)],
          leave_open |-> TRUE]
    [] time_hint = "verify_both" ->
         [ok |-> fact.start # None /\ fact.end # None,
          fact |-> fact,
          leave_open |-> FALSE]
    [] time_hint = "verify_start" ->
         [ok |-> fact.end = None,
          fact |-> [fact EXCEPT !.start = Dt(controller_now)],
          leave_open |-> TRUE]
    [] time_hint = "verify_end" ->
         [ok |-> fact.start = None,
          fact |-> IF fact.end = None
                   THEN [fact EXCEPT !.end = Dt(controller_now)] ELSE fact,
          leave_open |-> FALSE]
    [] OTHER -> [ok |-> TRUE, fact |-> fact, leave_open |-> FALSE]

\* new_fact_fill_now: the asserts of the hint, then the time filled from now.
new_fact_fill_now(fact, time_hint, controller_now) ==
  CASE time_hint = "verify_none" ->
         [ok |-> fact.start = None /\ fact.end = None,
          fact |-> [fact EXCEPT !.start = Dt(controller_now)],
          leave_open |-> TRUE]
    [] time_hint = "verify_both" ->
         [ok |-> fact.start # None /\ fact.end # None,
          fact |-> fact,
          leave_open |-> FALSE]
    [] time_hint = "verify_start" ->
         [ok |-> fact.end = None,
          fact |-> IF fact.start = None
                   THEN [fact EXCEPT !.start = Dt(controller_now)] ELSE fact,
          leave_open |-> TRUE]
    [] time_hint = "verify_end" ->
         [ok |-> fact.start = None,
          fact |-> IF fact.end = None
                   THEN [fact EXCEPT !.end = Dt(controller_now)] ELSE fact,
          leave_open |-> FALSE]
    [] OTHER -> [ok |-> TRUE, fact |-> fact, leave_open |-> FALSE]

\* controller.facts.insert_forcefully: the stored facts the fact collides
\* with (a fact with no end runs on, a fact with no start is its end).
insert_forcefully(st, fact) ==
  IF fact.start = None /\ fact.end = None THEN {}
  ELSE LET lo == IF IsDatetime(fact.start) THEN fact.start.v ELSE fact.end.v
       IN {s.pk : s \in {x \in st :
             /\ IsDatetime(fact.end) => x.start.v < fact.end.v \/ x.start.v = lo
             /\ IsDatetime(x.end) => lo < x.end.v}}

\* time_helpers.validate_start_end_range: an end before the start raises.
validate_start_end_range(fact) ==
  ~(IsDatetime(fact.start) /\ IsDatetime(fact.end) /\ fact.end.v < fact.start.v)

----
VARIABLES
  store,        \* the stored facts
  now,          \* controller.store.now
  ongoing_okay, \* the ongoing_okay argument
  orig_facts,   \* new_facts as passed in
  new_facts,    \* new_facts, mutated in place
  ante_fact,    \* ante_fact, NoStored for None
  seqt_fact,    \* seqt_fact, NoStored for None
  conflicts,    \* the conflicts list
  store_calls,  \* the store operations invoked so far
  saved,        \* the facts handed to controller.facts.save
  passes,       \* the passes run so far, in order
  seeds,        \* the prev_time each pass started from, in order
  mend,         \* the call of mend_facts_times, NoMend when there is none
  pc            \* where the flow is

vars == <<store, now, ongoing_okay, orig_facts, new_facts, ante_fact, seqt_fact,
          conflicts, store_calls, saved, passes, seeds, mend, pc>>

\* A call of must_complete_times.
InitComplete ==
  \E in \in Inputs :
    /\ store = in.store
    /\ now = in.now
    /\ ongoing_okay = in.okay
    /\ orig_facts = in.facts
    /\ new_facts = in.facts
    /\ mend = NoMend
    /\ pc = "call"

\* A call of mend_facts_times.
InitMend ==
  \E in \in MendInputs :
    /\ store = in.store
    /\ now = in.now
    /\ ongoing_okay = FALSE
    /\ orig_facts = <<>>
    /\ new_facts = <<>>
    /\ mend = [NoMend EXCEPT !.time_hint = in.time_hint, !.orig = in.fact,
                              !.fact = in.fact]
    /\ pc = "mend"

Init ==
  /\ InitComplete \/ InitMend
  /\ ante_fact = NoStored
  /\ seqt_fact = NoStored
  /\ conflicts = <<>>
  /\ store_calls = {}
  /\ saved = <<>>
  /\ passes = <<>>
  /\ seeds = <<>>

\* What a pass leaves behind: the facts and the conflicts, or a failed assertion.
PassResult(r, next_pc) ==
  LET pl == prev_and_later(new_facts, ante_fact, seqt_fact, ongoing_okay)
  IN /\ new_facts' = r.facts
     /\ conflicts' = r.conflicts
     /\ passes' = Append(passes, pc)
     /\ seeds' = IF pl.ok THEN Append(seeds, pl.prev_time) ELSE seeds
     /\ pc' = IF r.ok THEN next_pc ELSE "asserted"
     /\ mend' = mend

\* _must_complete_times up to the passes: the empty batch returns at once,
\* otherwise the two anchors are looked up.
FindAnchors ==
  /\ pc = "call"
  /\ IF new_facts = <<>>
     THEN /\ pc' = "returned"
          /\ UNCHANGED <<ante_fact, seqt_fact, store_calls>>
     ELSE /\ ante_fact' = antecedent_fact(store, new_facts)
          /\ seqt_fact' = subsequent_fact(store, new_facts)
          /\ store_calls' = store_calls
               \cup (IF IsDatetime(antecedent_ref(new_facts, 1))
                     THEN {"antecedent", "subsequent"} ELSE {})
          /\ pc' = "clock"
  /\ UNCHANGED <<store, now, ongoing_okay, orig_facts, new_facts, conflicts, saved,
                 passes, seeds, mend>>

FixClockTimes ==
  /\ pc = "clock"
  /\ PassResult(fix_clock_times_relative(new_facts, ante_fact, seqt_fact,
                                         conflicts, ongoing_okay), "delta")
  /\ UNCHANGED <<store, now, ongoing_okay, orig_facts, ante_fact, seqt_fact,
                 store_calls, saved>>

FixDeltaTimes ==
  /\ pc = "delta"
  /\ PassResult(fix_delta_times_relative(new_facts, ante_fact, seqt_fact,
                                         conflicts, ongoing_okay), "blank")
  /\ UNCHANGED <<store, now, ongoing_okay, orig_facts, ante_fact, seqt_fact,
                 store_calls, saved>>

\* The blank end of fact i with no later datetime reads controller.store.now.
ReadsNow(facts, seqt) ==
  \E i \in 1..Len(facts) :
    /\ facts[i].end = None
    /\ find_next_datetime(LaterFacts(facts, i, seqt)).t = None

\* Mutant: the blank pass commits the facts it has filled.
FixBlankTimes_commits ==
  /\ pc = "blank"
  /\ PassResult(fix_blank_times_relative(new_facts, ante_fact, seqt_fact,
                                         conflicts, ongoing_okay, now), "sanity")
  /\ store_calls' = store_calls
       \cup (IF ReadsNow(new_facts, seqt_fact) THEN {"now"} ELSE {})
  /\ store' = store \cup {Stored(10 + i, new_facts'[i].start, new_facts'[i].end) :
                            i \in 1..Len(new_facts)}
  /\ UNCHANGED <<now, ongoing_okay, orig_facts, ante_fact, seqt_fact, saved>>

FixBlankTimes ==
  /\ pc = "blank"
  /\ PassResult(fix_blank_times_relative(new_facts, ante_fact, seqt_fact,
                                         conflicts, ongoing_okay, now), "sanity")
  /\ store_calls' = store_calls
       \cup (IF ReadsNow(new_facts, seqt_fact) THEN {"now"} ELSE {})
  /\ UNCHANGED <<store, now, ongoing_okay, orig_facts, ante_fact, seqt_fact, saved>>

VerifySanity ==
  /\ pc = "sanity"
  /\ PassResult(verify_datetimes_sanity(new_facts, ante_fact, seqt_fact,
                                        conflicts, ongoing_okay), "barf")
  /\ UNCHANGED <<store, now, ongoing_okay, orig_facts, ante_fact, seqt_fact,
                 store_calls, saved>>

\* Mutant: the conflicts are printed but the flow returns.
barf_always_returns(cfl) == "returned"

\* barf_on_overlapping_facts_new: return when there is no conflict, else
\* print them all and exit.
barf_on_overlapping_facts_new(cfl) == IF cfl = <<>> THEN "returned" ELSE "exited"

Barf ==
  /\ pc = "barf"
  /\ pc' = barf_on_overlapping_facts_new(conflicts)
  /\ UNCHANGED <<store, now, ongoing_okay, orig_facts, new_facts, ante_fact,
                 seqt_fact, conflicts, store_calls, saved, passes, seeds, mend>>

----
\* Fact Intake (add_fact) around the resolver.

\* The primary key the store gives the i-th saved fact.
NewPk(i) == 10 + i

AsStored(facts) == {Stored(NewPk(i), facts[i].start, facts[i].end) : i \in 1..Len(facts)}

\* On success the resolved facts are forwarded to controller.facts.save.
SaveFacts ==
  /\ pc = "returned"
  /\ new_facts # <<>>
  /\ saved' = new_facts
  /\ store' = store \cup AsStored(new_facts)
  /\ store_calls' = store_calls \cup {"save"}
  /\ pc' = "saved"
  /\ UNCHANGED <<now, ongoing_okay, orig_facts, new_facts, ante_fact, seqt_fact,
                 conflicts, passes, seeds, mend>>

OngoingFacts(st) == {s \in st : s.end = None}

\* An empty factoid stops the ongoing fact: it is saved with end = now.
StopOngoing ==
  /\ pc = "returned"
  /\ new_facts = <<>>
  /\ \E o \in OngoingFacts(store) :
       /\ saved' = <<[start |-> o.start, end |-> Dt(now)]>>
       /\ store' = (store \ {o}) \cup {[o EXCEPT !.end = Dt(now)]}
  /\ store_calls' = store_calls \cup {"save"}
  /\ pc' = "saved"
  /\ UNCHANGED <<now, ongoing_okay, orig_facts, new_facts, ante_fact, seqt_fact,
                 conflicts, passes, seeds, mend>>

\* An empty factoid with no ongoing fact is an error: exit.
StopNoOngoing ==
  /\ pc = "returned"
  /\ new_facts = <<>>
  /\ OngoingFacts(store) = {}
  /\ pc' = "exited"
  /\ UNCHANGED <<store, now, ongoing_okay, orig_facts, new_facts, ante_fact,
                 seqt_fact, conflicts, store_calls, saved, passes, seeds, mend>>

\* new_fact_fill_now, the first step of _mend_facts_times.
MendFillNow ==
  /\ pc = "mend"
  /\ LET r == new_fact_fill_now(mend.fact, mend.time_hint, now)
     IN IF r.ok
        THEN /\ mend' = [mend EXCEPT !.fact = r.fact, !.leave_open = r.leave_open]
             /\ pc' = "mend_insert"
        ELSE /\ mend' = mend
             /\ pc' = "mend_asserted"
  /\ UNCHANGED <<store, now, ongoing_okay, orig_facts, new_facts, ante_fact,
                 seqt_fact, conflicts, store_calls, saved, passes, seeds>>

\* Mutant: the range is validated before the store is asked.
MendInsertForcefully_validates_first ==
  /\ pc = "mend_insert"
  /\ IF validate_start_end_range(mend.fact)
     THEN /\ mend' = [mend EXCEPT !.conflicts = insert_forcefully(store, mend.fact)]
          /\ store_calls' = store_calls \cup {"insert_forcefully"}
          /\ pc' = "mend_validate"
     ELSE /\ mend' = mend
          /\ store_calls' = store_calls
          /\ pc' = "mend_raised"
  /\ UNCHANGED <<store, now, ongoing_okay, orig_facts, new_facts, ante_fact,
                 seqt_fact, conflicts, saved, passes, seeds>>

MendInsertForcefully ==
  /\ pc = "mend_insert"
  /\ mend' = [mend EXCEPT !.conflicts = insert_forcefully(store, mend.fact)]
  /\ store_calls' = store_calls \cup {"insert_forcefully"}
  /\ pc' = "mend_validate"
  /\ UNCHANGED <<store, now, ongoing_okay, orig_facts, new_facts, ante_fact,
                 seqt_fact, conflicts, saved, passes, seeds>>

MendValidateRange ==
  /\ pc = "mend_validate"
  /\ pc' = IF validate_start_end_range(mend.fact) THEN "mend_reset" ELSE "mend_raised"
  /\ UNCHANGED <<store, now, ongoing_okay, orig_facts, new_facts, ante_fact,
                 seqt_fact, conflicts, store_calls, saved, passes, seeds, mend>>

\* The end of an open fact is reset and the conflicts are returned.
MendReturn ==
  /\ pc = "mend_reset"
  /\ mend' = [mend EXCEPT !.fact = IF mend.leave_open
                                    THEN [mend.fact EXCEPT !.end = None]
                                    ELSE mend.fact,
                          !.returned = <<mend.conflicts>>]
  /\ pc' = "mend_returned"
  /\ UNCHANGED <<store, now, ongoing_okay, orig_facts, new_facts, ante_fact,
                 seqt_fact, conflicts, store_calls, saved, passes, seeds>>

Next ==
  \/ FindAnchors
  \/ FixClockTimes
  \/ FixDeltaTimes
  \/ FixBlankTimes
  \/ VerifySanity
  \/ Barf
  \/ SaveFacts
  \/ StopOngoing
  \/ StopNoOngoing
  \/ MendFillNow
  \/ MendInsertForcefully
  \/ MendValidateRange
  \/ MendReturn

Spec == Init /\ [][Next]_vars

----
\* Properties.

\* The four passes have run and the flow went on (no assertion failed).
FourPassesDone ==
  /\ passes = <<"clock", "delta", "blank", "sanity">>
  /\ pc \in {"barf", "returned", "exited", "saved"}

\* The four passes finished with an empty conflict list.
Resolved == FourPassesDone /\ conflicts = <<>>

AllConcrete(facts) ==
  \A i \in 1..Len(facts) : IsDatetime(facts[i].start) /\ IsDatetime(facts[i].end)

\* C1: whenever the four passes finish with an empty conflict list, every
\* fact of the batch has a concrete start and a concrete end, with
\* start <= end.
C1_ResolvedIsConcrete ==
  Resolved =>
    \A i \in 1..Len(new_facts) :
      /\ IsDatetime(new_facts[i].start)
      /\ IsDatetime(new_facts[i].end)
      /\ new_facts[i].start.v <= new_facts[i].end.v

C1_Witness ==
  /\ pc = "barf"
  /\ conflicts = <<>>
  /\ NRelative(orig_facts) >= 2
  /\ \E i \in 1..Len(orig_facts) : orig_facts[i].start = None
  /\ \E i \in 1..Len(orig_facts) : orig_facts[i].end \notin {None} \cup {Dt(t) : t \in ConcreteTimes}

\* prior.end <= next.start between the new facts, and up to the subsequent.
ChainAfterFirst ==
  /\ \A i \in 1..(Len(new_facts) - 1) : new_facts[i].end.v <= new_facts[i + 1].start.v
  /\ seqt_fact # NoStored => new_facts[Len(new_facts)].end.v <= seqt_fact.start.v

\* C2 as stated: in every resolved batch each adjacent pair of antecedent,
\* new facts, subsequent satisfies prior.end <= next.start, the pair
\* (antecedent, first new fact) included.
C2_Original ==
  (Resolved /\ new_facts # <<>>) =>
    /\ ante_fact # NoStored =>
         (IsDatetime(ante_fact.end) /\ ante_fact.end.v <= new_facts[1].start.v)
    /\ ChainAfterFirst

\* C2 amended: in every resolved batch each adjacent pair whose prior fact
\* has an end satisfies prior.end <= next.start; an antecedent without end
\* bounds nothing.
C2_ChainOfClosedFacts ==
  (Resolved /\ new_facts # <<>>) =>
    /\ (ante_fact # NoStored /\ IsDatetime(ante_fact.end)) =>
         ante_fact.end.v <= new_facts[1].start.v
    /\ ChainAfterFirst

C2_Witness ==
  /\ Resolved
  /\ Len(new_facts) = 2
  /\ ante_fact # NoStored /\ IsDatetime(ante_fact.end)
  /\ seqt_fact # NoStored
  /\ new_facts # orig_facts

\* The intervals of a new fact and of a stored fact overlap; a stored fact
\* without end runs on.
Overlaps(f, s) ==
  /\ IsDatetime(f.start) /\ IsDatetime(f.end)
  /\ s.start.v < f.end.v
  /\ IsDatetime(s.end) => f.start.v < s.end.v

\* The anchors the sanity pass compares with: the antecedent when it has an
\* end, and the subsequent.
CheckedAnchors ==
  {s \in {ante_fact} : s # NoStored /\ IsDatetime(s.end)}
  \cup {s \in {seqt_fact} : s # NoStored}

Aborted == conflicts # <<>> /\ pc \in {"barf", "exited"}

\* C3 as stated: if after resolution a new fact overlaps any stored fact, a
\* conflict is recorded and the batch is aborted.
C3_Original ==
  (FourPassesDone /\ pc # "saved") =>
    ((\E i \in 1..Len(new_facts) : \E s \in store : Overlaps(new_facts[i], s))
       => Aborted)

\* C3 amended: if after resolution a new fact overlaps the antecedent that
\* was looked up (when it has an end) or the subsequent that was looked up,
\* a conflict is recorded and the batch is aborted; other stored facts are
\* not compared with.
C3_OverlapWithAnchors ==
  (FourPassesDone /\ pc # "saved") =>
    ((\E i \in 1..Len(new_facts) : \E s \in CheckedAnchors : Overlaps(new_facts[i], s))
       => Aborted)

C3_Witness ==
  /\ pc = "exited"
  /\ \E i \in 1..Len(new_facts) : \E s \in CheckedAnchors : Overlaps(new_facts[i], s)
  /\ \A n \in 1..Len(conflicts) : conflicts[n].other # NoFact

\* The fact before new fact i: the previous new fact, or the antecedent.
PredOf(i) ==
  IF i > 1 THEN [ref |-> NewRef(i - 1), end |-> new_facts[i - 1].end]
  ELSE IF ante_fact # NoStored THEN [ref |-> SavedRef(ante_fact), end |-> ante_fact.end]
  ELSE [ref |-> NoFact, end |-> None]

\* The fact after new fact i: the next new fact, or the subsequent.
SuccOf(i) ==
  IF i < Len(new_facts) THEN [ref |-> NewRef(i + 1), start |-> new_facts[i + 1].start]
  ELSE IF seqt_fact # NoStored THEN [ref |-> SavedRef(seqt_fact), start |-> seqt_fact.start]
  ELSE [ref |-> NoFact, start |-> None]

Reported(c) == \E n \in 1..Len(conflicts) : conflicts[n] = c

\* Every fault of the batch as it stands: a field that is not concrete, a
\* start before the previous fact's end, an end after the next fact's
\* start, a start after the fact's own end.
AllFaultsReported ==
  \A i \in 1..Len(new_facts) :
    LET f == new_facts[i]
    IN  /\ \A w \in {"start", "end"} :
             ~IsDatetime(getattr(f, w)) =>
               \E n \in 1..Len(conflicts) :
                 /\ conflicts[n].fact = i
                 /\ conflicts[n].which = w
                 /\ conflicts[n].other = NoFact
        /\ (IsDatetime(f.start) /\ IsDatetime(PredOf(i).end)
              /\ f.start.v < PredOf(i).end.v) =>
             Reported(Conflict(i, PredOf(i).ref,
                               "New fact starts before previous fact ends", "start"))
        /\ (IsDatetime(f.end) /\ IsDatetime(SuccOf(i).start)
              /\ f.end.v > SuccOf(i).start.v) =>
             Reported(Conflict(i, SuccOf(i).ref,
                               "New fact ends after next fact starts", "end"))
        /\ (IsDatetime(f.start) /\ IsDatetime(f.end) /\ f.start.v > f.end.v) =>
             Reported(Conflict(i, NoFact, "New fact starts after it ends", "both"))

\* C4: the conflict list reaches barf_on_overlapping_facts_new only after
\* all four passes ran over the whole batch, and it then holds a record for
\* every unresolved field and for every ordering violation of the batch.
C4_ConflictsComplete ==
  (pc \in {"barf", "exited"} /\ new_facts # <<>>) =>
    /\ passes = <<"clock", "delta", "blank", "sanity">>
    /\ AllFaultsReported

C4_Witness ==
  /\ pc = "barf"
  /\ Len(new_facts) = 2
  /\ ~IsDatetime(new_facts[2].start)
  /\ \E n \in 1..Len(conflicts) : conflicts[n].fact = 1 /\ conflicts[n].other = NewRef(2)
  /\ \E n \in 1..Len(conflicts) : conflicts[n].fact = 1 /\ conflicts[n].which = "both"

ResolverPcs == {"call", "clock", "delta", "blank", "sanity", "barf"}

ReadOps == {"antecedent", "subsequent", "now"}

\* C5: no step of must_complete_times changes the store or hands a fact to
\* save, and the only store operations it invokes are antecedent,
\* subsequent and now, whether it returns or aborts.
C5_StoreOnlyRead ==
  [][(pc \in ResolverPcs) =>
       (store' = store /\ saved' = saved /\ store_calls' \subseteq ReadOps)]_vars

C5_Witness ==
  /\ pc = "exited"
  /\ conflicts # <<>>
  /\ store_calls = ReadOps
  /\ new_facts # orig_facts

\* C6: save is called only on success, with the facts as the resolver left
\* them; once a conflict is recorded, or the ongoing fact to stop is
\* missing, the flow exits and save is never called.
C6_SaveOnlyOnSuccess ==
  /\ conflicts # <<>> => (saved = <<>> /\ "save" \notin store_calls /\ pc # "saved")
  /\ pc = "exited" => (saved = <<>> /\ "save" \notin store_calls)
  /\ (pc = "saved" /\ orig_facts # <<>>) =>
       (saved = new_facts /\ AllConcrete(saved) /\ AsStored(saved) \subseteq store)

C6_Witness ==
  /\ pc = "saved"
  /\ saved = new_facts
  /\ new_facts # orig_facts
  /\ Len(saved) = 2

\* Every fact has two concrete timestamps, start <= end, and each fact's end
\* is at or before the next fact's start.
ConcreteAndOrdered(facts) ==
  /\ AllConcrete(facts)
  /\ \A i \in 1..Len(facts) : facts[i].start.v <= facts[i].end.v
  /\ \A i \in 1..(Len(facts) - 1) : facts[i].end.v <= facts[i + 1].start.v

\* C7: a batch whose facts are all concrete and correctly ordered, with no
\* antecedent and no subsequent found in the store, gets no conflict and
\* keeps every start and end.
C7_NoOpResolution ==
  (/\ pc # "call"
   /\ orig_facts # <<>>
   /\ ConcreteAndOrdered(orig_facts)
   /\ ante_fact = NoStored
   /\ seqt_fact = NoStored) =>
    /\ conflicts = <<>>
    /\ new_facts = orig_facts
    /\ pc \notin {"exited", "asserted"}

C7_Witness ==
  /\ pc = "returned"
  /\ Len(orig_facts) = 2
  /\ ConcreteAndOrdered(orig_facts)
  /\ orig_facts[1].end = orig_facts[2].start
  /\ ante_fact = NoStored
  /\ seqt_fact = NoStored
  /\ store # {}

\* The store-wide timeline once the resolved batch joins the stored facts.
Timeline == store \cup AsStored(new_facts)

Succeeded == Resolved /\ pc = "returned" /\ new_facts # <<>>

OpenAntecedent == ante_fact # NoStored /\ ante_fact.end = None

\* C8 as stated: after a successful resolution at most one fact of the
\* timeline has no end, no fact starts after it, and the antecedent of the
\* batch is not an open fact.
C8_Original ==
  Succeeded =>
    /\ Cardinality(OngoingFacts(Timeline)) <= 1
    /\ \A o \in OngoingFacts(Timeline) : \A s \in Timeline : s.start.v <= o.start.v
    /\ ~OpenAntecedent

\* C8 amended: after a successful resolution at most one fact of the
\* timeline has no end, and it is a stored fact, never a fact of the batch;
\* it need not be the last fact: new facts after an open antecedent are
\* refused (by assertion) only when ongoing_okay is false, the batch has one
\* fact and there is no subsequent.
C8_OpenFactIsStored ==
  Succeeded =>
    /\ Cardinality(OngoingFacts(Timeline)) <= 1
    /\ OngoingFacts(Timeline) \subseteq store
    /\ ~(OpenAntecedent /\ ~ongoing_okay /\ Len(new_facts) = 1 /\ seqt_fact = NoStored)

C8_Witness ==
  /\ Succeeded
  /\ OpenAntecedent
  /\ ~ongoing_okay
  /\ \E i \in 1..Len(orig_facts) : orig_facts[i].end = None

IsClockScenario ==
  /\ orig_facts = ClockScenario.facts
  /\ ClockScenario.store \subseteq store
  /\ ongoing_okay = ClockScenario.okay
  /\ now = ClockScenario.now

Ended == pc \in {"returned", "exited", "asserted", "saved"}

\* C9 as stated: start "14:00" with end blank, a stored fact ending 12:00
\* and now 15:00 resolve without conflict to start 2020-01-01 14:00, end
\* left blank.
C9_Original ==
  (IsClockScenario /\ Ended) =>
    /\ conflicts = <<>>
    /\ pc \in {"returned", "saved"}
    /\ new_facts = <<[start |-> Dt(At(1, 14, 0)), end |-> None]>>

\* C9 amended: in that scenario the batch holds no concrete timestamp, so no
\* antecedent is looked up; the start stays "14:00" with two conflicts
\* (clock time not deciphered, relative date not translated), the end is set
\* to now, 15:00, and the batch is aborted.
C9_ClockScenarioAborts ==
  IsClockScenario =>
    /\ ante_fact = NoStored
    /\ pc \notin {"returned", "saved", "asserted"}
    /\ pc \in {"barf", "exited"} =>
         /\ conflicts = <<Conflict(1, NoFact, "Could not decipher clock time", "start"),
                          Conflict(1, NoFact, "Could not translate relative date", "start")>>
         /\ new_facts = <<[start |-> Clock(14 * MinutesPerHour), end |-> Dt(At(1, 15, 0))]>>

C9_Witness == IsClockScenario /\ pc = "exited"

IsDeltaScenario ==
  /\ orig_facts = DeltaScenario(ongoing_okay).facts
  /\ DeltaScenario(ongoing_okay).store = store
  /\ now = DeltaScenario(ongoing_okay).now

\* C10 as stated: start blank with end "-15", a stored fact ending 09:00 and
\* now 09:30 resolve without conflict to start 09:00 and end 09:15.
C10_Original ==
  (IsDeltaScenario /\ Ended) =>
    /\ conflicts = <<>>
    /\ pc \in {"returned", "saved"}
    /\ new_facts = <<[start |-> Dt(At(1, 9, 0)), end |-> Dt(At(1, 9, 15))]>>

\* C10 amended: in that scenario no antecedent is looked up and nothing
\* follows the fact, so the end stays "-15" and the start stays blank, with
\* three conflicts (delta not inferred for end, blank start not inferred,
\* relative date not translated for end), and the batch is aborted; now is
\* no fallback for a delta.
C10_DeltaScenarioAborts ==
  IsDeltaScenario =>
    /\ ante_fact = NoStored
    /\ pc \notin {"returned", "saved", "asserted"}
    /\ pc \in {"barf", "exited"} =>
         /\ conflicts = <<Conflict(1, NoFact, "Could not infer delta time", "end"),
                          Conflict(1, NoFact, "Could not infer date left blank", "start"),
                          Conflict(1, NoFact, "Could not translate relative date", "end")>>
         /\ new_facts = orig_facts

C10_Witness == IsDeltaScenario /\ pc = "exited" /\ ongoing_okay

----
StartsBeforePrevious == "New fact starts before previous fact ends"

\* The first fact of the pair (i - 1, i) ends later than the second starts.
AdjacentOverlap(i) ==
  /\ IsDatetime(new_facts[i - 1].end)
  /\ IsDatetime(new_facts[i].start)
  /\ new_facts[i - 1].end.v > new_facts[i].start.v

\* C11: for two adjacent new facts whose resolved times put the end of the
\* first later than the start of the second, the sanity pass (and no pass
\* before it) records a 'starts before previous fact ends' conflict on the
\* second fact, whose other fact is the first fact.
C11_AdjacentOverlapReported ==
  /\ pc = "sanity" =>
       \A n \in 1..Len(conflicts) : conflicts[n].msg # StartsBeforePrevious
  /\ FourPassesDone =>
       \A i \in 2..Len(new_facts) :
         AdjacentOverlap(i) =>
           Reported(Conflict(i, NewRef(i - 1), StartsBeforePrevious, "start"))

IsOverlapScenario ==
  /\ orig_facts = OverlapScenario.facts
  /\ store = OverlapScenario.store

\* "10:00" and "09:30" resolve to 10:00 and 09:30 of the same day and the
\* second fact is reported against the first.
C11_Witness ==
  /\ IsOverlapScenario
  /\ pc = "exited"
  /\ new_facts[1].end = Dt(At(1, 10, 0))
  /\ new_facts[2].start = Dt(At(1, 9, 30))
  /\ Reported(Conflict(2, NewRef(1), StartsBeforePrevious, "start"))

----
\* The conflicts recorded for one field of new fact i.
ConflictsOf(i, which) ==
  {n \in 1..Len(conflicts) : conflicts[n].fact = i /\ conflicts[n].which = which}

CouldNotTranslate(i, which) ==
  Conflict(i, NoFact, "Could not translate relative date", which)

\* C12: a new fact whose start is a string that is neither a clock time nor
\* a delta keeps that string through the clock and delta passes, which
\* record nothing for it, and the whole run records exactly one conflict for
\* it, 'could not translate relative date' of the blank pass; it is the only
\* conflict of a batch of that one fact with its end given or blank.
C12_GarbageStartOneConflict ==
  \A i \in 1..Len(orig_facts) :
    orig_facts[i].start = Text =>
      /\ new_facts[i].start = Text
      /\ pc \in {"clock", "delta", "blank"} => ConflictsOf(i, "start") = {}
      /\ FourPassesDone =>
           /\ Cardinality(ConflictsOf(i, "start")) = 1
           /\ Reported(CouldNotTranslate(i, "start"))
           /\ (Len(orig_facts) = 1 /\ orig_facts[i].end \in {None} \cup MendFields) =>
                conflicts = <<CouldNotTranslate(i, "start")>>

C12_Witness ==
  /\ orig_facts = <<[start |-> Text, end |-> None]>>
  /\ pc = "exited"
  /\ new_facts = <<[start |-> Text, end |-> Dt(now)]>>
  /\ conflicts = <<CouldNotTranslate(1, "start")>>

----
\* new_fact_fill_now has returned (no assert of the hint failed).
MendFilled ==
  pc \in {"mend_insert", "mend_validate", "mend_reset", "mend_raised", "mend_returned"}

\* What the hint requires of the fact handed in.
HintRequires(fact, time_hint) ==
  /\ time_hint = "verify_none" => fact.start = None /\ fact.end = None
  /\ time_hint = "verify_both" => fact.start # None /\ fact.end # None
  /\ time_hint = "verify_start" => fact.end = None
  /\ time_hint = "verify_end" => fact.start = None

\* The fact with the time its hint takes from now.
FilledFromNow(fact, time_hint) ==
  [start |-> IF time_hint \in {"verify_none", "verify_start"} /\ fact.start = None
             THEN Dt(now) ELSE fact.start,
   end |-> IF time_hint = "verify_end" /\ fact.end = None
           THEN Dt(now) ELSE fact.end]

\* C13: mend_facts_times goes on only when the fact meets the requirement
\* of its hint (verify_none: no start and no end; verify_both: both;
\* verify_start: no end; verify_end: no start), fills start = now for
\* verify_none and for verify_start without a start, end = now for
\* verify_end without an end, and nothing else; it returns the conflicts of
\* insert_forcefully for the fact so filled, and on return the fact has no
\* end exactly for verify_none and verify_start.
C13_MendFillsByHint ==
  /\ MendFilled => HintRequires(mend.orig, mend.time_hint)
  /\ pc \in {"mend_insert", "mend_validate", "mend_reset", "mend_raised"} =>
       mend.fact = FilledFromNow(mend.orig, mend.time_hint)
  /\ pc = "mend_returned" =>
       /\ mend.returned =
            <<insert_forcefully(store, FilledFromNow(mend.orig, mend.time_hint))>>
       /\ mend.fact.start = FilledFromNow(mend.orig, mend.time_hint).start
       /\ mend.fact.end = None <=> mend.time_hint \in {"verify_none", "verify_start"}
       /\ mend.fact.end # None =>
            mend.fact.end = FilledFromNow(mend.orig, mend.time_hint).end

\* The stop of an ongoing fact: verify_end with nothing given.
C13_Witness ==
  /\ pc = "mend_returned"
  /\ mend.time_hint = "verify_end"
  /\ mend.orig = [start |-> None, end |-> None]
  /\ mend.fact = [start |-> None, end |-> Dt(now)]
  /\ mend.returned = <<{4}>>

----
\* The fields of a batch in the order the passes visit them.
Flat(facts) ==
  [k \in 1..(2 * Len(facts)) |->
     IF k % 2 = 1 THEN facts[(k + 1) \div 2].start ELSE facts[k \div 2].end]

FieldIndex(i, which) == IF which = "start" THEN 2 * i - 1 ELSE 2 * i

\* The running prev_time when a pass reaches a field, told from the batch as
\* the pass left it: the last concrete time before the field, else the
\* time the pass started from.
CursorAt(after, i, which, seed) ==
  LET fl == Flat(after)
      ks == {j \in 1..(FieldIndex(i, which) - 1) : IsDatetime(fl[j])}
  IN  IF ks = {} THEN seed
      ELSE fl[CHOOSE j \in ks : \A m \in ks : m <= j]

\* The nearest concrete time after fact i, told from the batch as the pass
\* found it: in the later facts of the batch, else the subsequent's start.
NextAfter(before, i, seqt) ==
  LET fl == Flat(before)
      ks == {j \in (2 * i + 1)..Len(fl) : IsDatetime(fl[j])}
  IN  IF ks # {} THEN fl[CHOOSE j \in ks : \A m \in ks : j <= m]
      ELSE IF seqt # NoStored THEN seqt.start
      ELSE None

\* x is the last occurrence of clock time c at or before anchor a.
Backward(a, c, x) ==
  /\ IsDatetime(x)
  /\ x.v % MinutesPerDay = c
  /\ x.v <= a.v /\ a.v - x.v < MinutesPerDay

\* x is the first occurrence of clock time c at or after anchor a.
Forward(a, c, x) ==
  /\ IsDatetime(x)
  /\ x.v % MinutesPerDay = c
  /\ x.v >= a.v /\ x.v - a.v < MinutesPerDay

\* The clock-time field `which` of fact i went from before to after by the
\* one anchor of highest priority.
ClockAnchored(before, after, i, which, seed, seqt) ==
  LET c == getattr(before[i], which).v
      x == getattr(after[i], which)
      oppo == IF which = "start" THEN before[i].end ELSE after[i].start
      prev == CursorAt(after, i, which, seed)
      next == NextAfter(before, i, seqt)
  IN  IF ClockRaises(c) THEN x = getattr(before[i], which)
      ELSE IF IsDatetime(oppo)
      THEN IF which = "start" THEN Backward(oppo, c, x) ELSE Forward(oppo, c, x)
      ELSE IF prev # None THEN Forward(prev, c, x)
      ELSE IF next # None THEN Backward(next, c, x)
      ELSE x = getattr(before[i], which)

\* C14: the clock-time pass resolves each clock-time field against exactly
\* one anchor, the first that exists of: the fact's own opposite field when
\* concrete (a start backward from the end, an end forward from the start),
\* the running prev_time (next occurrence at or after it), the nearest
\* concrete time of the later facts and the subsequent (backward from it);
\* with none of them, or when the clock time is out of range for the anchor
\* chosen, the field is left as it was.
C14_ClockAnchorPriority ==
  [][(pc = "clock" /\ pc' = "delta") =>
       \A i \in 1..Len(new_facts) : \A which \in {"start", "end"} :
         parse_clock_time(getattr(new_facts[i], which)) # -1 =>
           ClockAnchored(new_facts, new_facts', i, which, seeds'[Len(seeds')],
                         seqt_fact)]_vars

\* "10:30" before an end of 11:00, with an antecedent ending 10:45: the
\* start is 10:30 of that day, not the 10:30 after prev_time.
C14_Witness ==
  /\ pc = "delta"
  /\ orig_facts[1] = [start |-> Clock(10 * MinutesPerHour + 30), end |-> Dt(At(1, 11, 0))]
  /\ seeds = <<Dt(At(1, 10, 45))>>
  /\ new_facts[1].start = Dt(At(1, 10, 30))

----
\* The pass left the field as it was and added the conflict c for it.
LeftInConflict(before, after, i, which, cfl_before, cfl_after, c) ==
  /\ getattr(after[i], which) = getattr(before[i], which)
  /\ \E n \in 1..Len(cfl_after) : cfl_after[n] = c
  /\ \A n \in 1..Len(cfl_before) : cfl_before[n] # c

\* The delta field `which` of fact i went from before to after by the rule
\* of its sign.
DeltaAnchored(before, after, i, which, seed, seqt, cfl_before, cfl_after) ==
  LET d == getattr(before[i], which)
      x == getattr(after[i], which)
      prev == CursorAt(after, i, which, seed)
      next == NextAfter(before, i, seqt)
      failed == LeftInConflict(before, after, i, which, cfl_before, cfl_after,
                               Conflict(i, NoFact, "Could not infer delta time", which))
  IN  IF d.k = "plus"
      THEN IF prev # None THEN x = Dt(prev.v + d.v) ELSE failed
      ELSE IF which = "start" /\ IsDatetime(before[i].end)
      THEN x = Dt(before[i].end.v - d.v)
      ELSE IF next # None THEN x = Dt(next.v - d.v)
      ELSE failed

\* C15: in the relative-delta pass a non-negative delta becomes prev_time +
\* delta and is a conflict when prev_time is absent; a negative delta on a
\* start whose fact has a concrete end becomes end - |delta|; any other
\* negative delta becomes (nearest later concrete time of the remaining
\* batch and the subsequent) - |delta| and is a conflict when there is
\* none, whatever the fact's own start and store.now are.
C15_DeltaRules ==
  [][(pc = "delta" /\ pc' = "blank") =>
       \A i \in 1..Len(new_facts) : \A which \in {"start", "end"} :
         IsDelta(getattr(new_facts[i], which)) =>
           DeltaAnchored(new_facts, new_facts', i, which, seeds'[Len(seeds')],
                         seqt_fact, conflicts, conflicts')]_vars

\* An end of "-30" after a start of 10:00 with nothing later: a conflict,
\* the end is not 09:30 and is not taken from now.
C15_Witness ==
  /\ pc = "blank"
  /\ orig_facts = <<[start |-> Dt(At(1, 10, 0)), end |-> Minus(30)]>>
  /\ seqt_fact = NoStored
  /\ new_facts = orig_facts
  /\ conflicts = <<Conflict(1, NoFact, "Could not infer delta time", "end")>>

----
\* The field `which` of fact i, blank or still a string, went from before to
\* after by the rule of the blank pass.
BlankFilled(before, after, i, which, seed, seqt, cfl_before, cfl_after) ==
  LET d == getattr(before[i], which)
      x == getattr(after[i], which)
      prev == CursorAt(after, i, which, seed)
      next == NextAfter(before, i, seqt)
  IN  IF d # None
      THEN LeftInConflict(before, after, i, which, cfl_before, cfl_after,
                          CouldNotTranslate(i, which))
      ELSE IF which = "start"
      THEN IF prev # None THEN x = prev
           ELSE LeftInConflict(before, after, i, which, cfl_before, cfl_after,
                  Conflict(i, NoFact, "Could not infer date left blank", which))
      ELSE /\ x = IF next # None THEN next ELSE Dt(now)
           /\ \A n \in 1..Len(cfl_after) :
                ~(cfl_after[n].fact = i /\ cfl_after[n].which = "end"
                    /\ cfl_after[n].msg = "Could not infer date left blank")

\* C16: in the blank-fill pass a blank start becomes the running prev_time,
\* or a 'could not infer date left blank' conflict when prev_time is
\* absent; a blank end becomes the nearest concrete time among the later
\* facts of the batch and the subsequent, or store.now when there is none,
\* and never a conflict; a field still holding a string is left as it is
\* with a 'could not translate relative date' conflict.
C16_BlankFillRules ==
  [][(pc = "blank" /\ pc' = "sanity") =>
       \A i \in 1..Len(new_facts) : \A which \in {"start", "end"} :
         ~IsDatetime(getattr(new_facts[i], which)) =>
           BlankFilled(new_facts, new_facts', i, which, seeds'[Len(seeds')],
                       seqt_fact, conflicts, conflicts')]_vars

\* A blank end with prev_time 10:00 and a later fact at 11:00 becomes 11:00;
\* the blank end of the last fact, with no subsequent, becomes now.
C16_Witness ==
  /\ pc = "sanity"
  /\ orig_facts = <<[start |-> Dt(At(1, 10, 0)), end |-> None],
                    [start |-> Dt(At(1, 11, 0)), end |-> None]>>
  /\ seqt_fact = NoStored
  /\ new_facts = <<[start |-> Dt(At(1, 10, 0)), end |-> Dt(At(1, 11, 0))],
                   [start |-> Dt(At(1, 11, 0)), end |-> Dt(now)]>>
  /\ conflicts = <<>>

----
\* The fact whose time is the running prev_time when the sanity pass reaches
\* the start of new fact i: the last fact before i holding a concrete time,
\* else the antecedent.
PrevSupplier(i) ==
  LET fl == Flat(new_facts)
      ks == {j \in 1..(FieldIndex(i, "start") - 1) : IsDatetime(fl[j])}
  IN  IF ks # {} THEN NewRef(((CHOOSE j \in ks : \A m \in ks : m <= j) + 1) \div 2)
      ELSE IF ante_fact # NoStored THEN SavedRef(ante_fact)
      ELSE NoFact

\* The fact whose time is the next concrete time after new fact i: the
\* first later fact holding one, else the subsequent.
NextSupplier(i) ==
  LET fl == Flat(new_facts)
      ks == {j \in (2 * i + 1)..Len(fl) : IsDatetime(fl[j])}
  IN  IF ks # {} THEN NewRef(((CHOOSE j \in ks : \A m \in ks : j <= m) + 1) \div 2)
      ELSE IF seqt_fact # NoStored THEN SavedRef(seqt_fact)
      ELSE NoFact

\* C17: in every conflict record the other fact is the fact conflicted
\* with: for 'starts before previous fact ends' the fact whose time was the
\* violated prev_time, for 'ends after next fact starts' the fact that
\* supplied the next concrete time, and no fact for every other conflict.
C17_OtherIsConflictingFact ==
  FourPassesDone =>
    \A n \in 1..Len(conflicts) :
      LET c == conflicts[n]
      IN  c.other = IF c.msg = StartsBeforePrevious THEN PrevSupplier(c.fact)
                    ELSE IF c.msg = "New fact ends after next fact starts"
                    THEN NextSupplier(c.fact)
                    ELSE NoFact

----
\* C18 as stated: each pass starts with prev_time the antecedent's end, or
\* the antecedent's start when it has no end, and absent only when there is
\* no antecedent.
C18_Original ==
  \A n \in 1..Len(seeds) :
    seeds[n] = IF ante_fact = NoStored THEN None
               ELSE IF IsDatetime(ante_fact.end) THEN ante_fact.end
               ELSE ante_fact.start

\* C18: each of the four passes starts with prev_time the antecedent's end
\* when there is an antecedent and it has an end, and with prev_time absent
\* otherwise: no antecedent, or an antecedent with no end.
C18_SeededFromAntecedentEnd ==
  /\ \A n \in 1..Len(seeds) :
       seeds[n] = IF ante_fact # NoStored /\ IsDatetime(ante_fact.end)
                  THEN ante_fact.end ELSE None
  /\ FourPassesDone => Len(seeds) = 4

\* The four passes have run from an antecedent with no end.
C18_Witness ==
  /\ FourPassesDone
  /\ OpenAntecedent
  /\ seeds = <<None, None, None, None>>
  /\ new_facts # orig_facts

----
\* The positions, in visiting order, of the concrete times of a batch.
ConcreteAt(facts) == {j \in 1..(2 * Len(facts)) : IsDatetime(Flat(facts)[j])}

\* C19: the antecedent is store.antecedent(ref_time) for the first concrete
\* time of the batch as passed in (facts in order, start before end), the
\* subsequent is store.subsequent(ref_time) for its last concrete time
\* (facts in reverse order, end before start); with no concrete time on
\* entry both are absent.
C19_AnchorLookup ==
  [][(pc = "call" /\ new_facts # <<>>) =>
       LET fl == Flat(new_facts)
           ks == ConcreteAt(new_facts)
           first == CHOOSE j \in ks : \A m \in ks : j <= m
           last == CHOOSE j \in ks : \A m \in ks : m <= j
       IN  IF ks = {} THEN ante_fact' = NoStored /\ seqt_fact' = NoStored
           ELSE /\ ante_fact' = store_antecedent(store, fl[first].v)
                /\ seqt_fact' = store_subsequent(store, fl[last].v)]_vars

\* Start 10:00 and end 11:00 over stored facts 08:00-09:00, 10:15-10:45 and
\* 12:00-13:00: the antecedent is looked up from 10:00, the subsequent
\* from 11:00.
C19_Witness ==
  /\ pc = "clock"
  /\ orig_facts = <<[start |-> Dt(At(1, 10, 0)), end |-> Dt(At(1, 11, 0))]>>
  /\ {s.pk : s \in store} = {1, 2, 3}
  /\ ante_fact.pk = 1
  /\ seqt_fact.pk = 3

----
\* The first pass has been entered with an open antecedent, a batch of one
\* fact and no subsequent.
OpenAntecedentAlone ==
  /\ OpenAntecedent
  /\ Len(orig_facts) = 1
  /\ seqt_fact = NoStored
  /\ pc \notin {"call", "clock"}

\* The run failed on an assertion with nothing recorded and nothing changed.
FailedUntouched ==
  /\ pc = "asserted"
  /\ conflicts = <<>>
  /\ new_facts = orig_facts
  /\ seeds = <<>>

\* C20 as stated: an open antecedent, a batch of one fact and no subsequent
\* fail on an assertion for every value of ongoing_okay, with no conflict
\* recorded and no field changed.
C20_Original == OpenAntecedentAlone => FailedUntouched

\* C20: an open antecedent, a batch of one fact and no subsequent fail on
\* an assertion, with no conflict recorded and no field changed, when
\* ongoing_okay is false; when ongoing_okay is true no assertion fails and
\* the passes run.
C20_OpenAntecedentAsserts ==
  OpenAntecedentAlone =>
    IF ongoing_okay THEN pc # "asserted" /\ seeds # <<>>
    ELSE FailedUntouched

\* A fact starting 10:00 with its end blank, after a stored fact open since
\* 09:30, ongoing_okay false.
C20_Witness ==
  /\ OpenAntecedentAlone
  /\ ~ongoing_okay
  /\ orig_facts = <<[start |-> Dt(At(1, 10, 0)), end |-> None]>>
  /\ FailedUntouched

----
\* The batch as the delta pass found it, told once that pass is over (pc =
\* "blank"): a field that was a delta on entry was still that delta, every
\* other field is as it is now.
DeltaEntry ==
  [i \in 1..Len(new_facts) |->
     [start |-> IF IsDelta(orig_facts[i].start) THEN orig_facts[i].start
                ELSE new_facts[i].start,
      end |-> IF IsDelta(orig_facts[i].end) THEN orig_facts[i].end
              ELSE new_facts[i].end]]

\* The other time of fact i when the delta pass reached its field `which`:
\* the end as the pass found it, the start as the pass left it.
OppositeAt(i, which) ==
  IF which = "start" THEN DeltaEntry[i].end ELSE new_facts[i].start

\* C21 as stated: a delta whose opposite endpoint on the same fact is
\* concrete is resolved against that endpoint.
C21_Original ==
  pc = "blank" =>
    \A i \in 1..Len(new_facts) : \A which \in {"start", "end"} :
      LET d == getattr(DeltaEntry[i], which)
          oppo == OppositeAt(i, which)
      IN  (IsDelta(d) /\ IsDatetime(oppo)) =>
            getattr(new_facts[i], which) = Dt(oppo.v + delta_mins_of(d))

\* C21: of the deltas whose opposite endpoint on the same fact is concrete,
\* only a negative delta on a start is resolved against that endpoint (end
\* - |delta|); a non-negative delta is resolved against the running
\* prev_time (for an end that is the fact's own start, for a start it is
\* whatever came before, and unresolved when nothing did); a negative delta
\* on an end is resolved against the nearest later concrete time and is
\* left unresolved when there is none.
C21_DeltaOppositeOnlyNegativeStart ==
  pc = "blank" =>
    \A i \in 1..Len(new_facts) : \A which \in {"start", "end"} :
      LET d == getattr(DeltaEntry[i], which)
          x == getattr(new_facts[i], which)
          oppo == OppositeAt(i, which)
          prev == CursorAt(new_facts, i, which, seeds[2])
          next == NextAfter(DeltaEntry, i, seqt_fact)
      IN  (IsDelta(d) /\ IsDatetime(oppo)) =>
            IF which = "start" /\ delta_minus_of(d) THEN x = Dt(oppo.v - d.v)
            ELSE IF which = "end" /\ ~delta_minus_of(d) THEN x = Dt(oppo.v + d.v)
            ELSE IF which = "start"
            THEN x = IF prev # None THEN Dt(prev.v + d.v) ELSE d
            ELSE x = IF next # None THEN Dt(next.v - d.v) ELSE d

\* A start of "+30" before an end of 11:00, after a stored fact ending
\* 09:00: the start is 09:30, not 11:30.
C21_Witness ==
  /\ pc = "blank"
  /\ orig_facts = <<[start |-> Plus(30), end |-> Dt(At(1, 11, 0))]>>
  /\ seeds[2] = Dt(At(1, 9, 0))
  /\ new_facts[1].start = Dt(At(1, 9, 30))

----
\* The conflicts with message msg recorded for one field of new fact i.
ConflictsWith(i, which, msg) ==
  {n \in ConflictsOf(i, which) : conflicts[n].msg = msg}

\* The message of the pass a symbolic field belongs to.
FailureOf(x) ==
  IF x.k = "clock" THEN "Could not decipher clock time" ELSE "Could not infer delta time"

\* The field is a clock time or a delta whose own pass is over.
PassedOver(x) ==
  \/ x.k = "clock" /\ Len(seeds) >= 1
  \/ IsDelta(x) /\ Len(seeds) >= 2

\* C22: a clock time or a delta that its pass could not resolve (the
\* resolution raised, or there was no anchor) has exactly one conflict of
\* that pass, for its fact and with no other fact, and is still the string
\* it was on entry, in every later pass too; a field the pass did resolve
\* has no such conflict; and prev_time is as it was before the attempt:
\* the fields that follow are resolved from the last concrete time before
\* the failed field.
C22_FailedResolutionLeavesField ==
  /\ \A i \in 1..Len(new_facts) : \A which \in {"start", "end"} :
       LET o == getattr(orig_facts[i], which)
           x == getattr(new_facts[i], which)
       IN  PassedOver(o) =>
             IF IsDatetime(x) THEN ConflictsWith(i, which, FailureOf(o)) = {}
             ELSE /\ x = o
                  /\ Cardinality(ConflictsWith(i, which, FailureOf(o))) = 1
                  /\ Reported(Conflict(i, NoFact, FailureOf(o), which))
  /\ pc = "delta" =>
       \A i \in 1..Len(new_facts) : \A which \in {"start", "end"} :
         getattr(orig_facts[i], which).k = "clock" =>
           ClockAnchored(orig_facts, new_facts, i, which, seeds[1], seqt_fact)
  /\ pc = "blank" =>
       \A i \in 1..Len(new_facts) : \A which \in {"start", "end"} :
         IsDelta(getattr(orig_facts[i], which)) =>
           DeltaAnchored(DeltaEntry, new_facts, i, which, seeds[2], seqt_fact,
                         <<>>, conflicts)

\* "25:00" after a start of 10:00 raises: one conflict, the end is still
\* "25:00" at the end of the run, and the "10:30" that follows is taken
\* from prev_time 10:00.
C22_Witness ==
  /\ orig_facts = ClockRaiseScenario.facts
  /\ pc = "exited"
  /\ new_facts[1].end = Clock(25 * MinutesPerHour)
  /\ Cardinality(ConflictsWith(1, "end", "Could not decipher clock time")) = 1
  /\ new_facts[2].start = Dt(At(1, 10, 30))

----
\* The sanity pass was entered and an assertion failed in it.
SanityAsserted == pc = "asserted" /\ Len(passes) = 4

\* C23: the 'already caught' assertion of the sanity pass never fails: a
\* fact that reaches the sanity pass with its start or its end absent
\* already has a conflict of its own in the list, and the sanity pass adds
\* none for the missing field, which keeps the one conflict the blank pass
\* gave it.
C23_MissingAlreadyCaught ==
  /\ ~SanityAsserted
  /\ (pc = "sanity" \/ FourPassesDone) =>
       \A i \in 1..Len(new_facts) : \A which \in {"start", "end"} :
         getattr(new_facts[i], which) = None =>
           /\ \E n \in 1..Len(conflicts) : conflicts[n].fact = i
           /\ ConflictsOf(i, which) =
                ConflictsWith(i, which, "Could not infer date left blank")
           /\ Cardinality(ConflictsOf(i, which)) = 1

\* The sanity pass has run over a fact whose start is still absent.
C23_Witness ==
  /\ FourPassesDone
  /\ \E i \in 1..Len(new_facts) :
       /\ new_facts[i].start = None
       /\ IsDatetime(new_facts[i].end)
       /\ Len(conflicts) = 1

----
\* The batch as the blank pass found it, told once that pass is over: a
\* field that was blank on entry was still blank, every other field is as
\* it is now.
BlankEntry ==
  [i \in 1..Len(new_facts) |->
     [start |-> IF orig_facts[i].start = None THEN None ELSE new_facts[i].start,
      end |-> IF orig_facts[i].end = None THEN None ELSE new_facts[i].end]]

\* C24: in a batch resolved without conflict, a blank end is filled from
\* store.now only on the last fact of the batch and only when there is no
\* subsequent; the blank end of any other fact, and of the last fact when
\* there is a subsequent, is the nearest later concrete time (of the later
\* facts, else the subsequent's start).
C24_OpenTailOnly ==
  Resolved =>
    \A i \in 1..Len(new_facts) :
      orig_facts[i].end = None =>
        LET next == NextAfter(BlankEntry, i, seqt_fact)
        IN  IF i = Len(new_facts) /\ seqt_fact = NoStored
            THEN next = None /\ new_facts[i].end = Dt(now)
            ELSE next # None /\ new_facts[i].end = next

\* Two facts with blank ends and no subsequent: the first ends where the
\* second starts, the second ends now.
C24_Witness ==
  /\ Resolved
  /\ Len(new_facts) = 2
  /\ orig_facts[1].end = None /\ orig_facts[2].end = None
  /\ seqt_fact = NoStored
  /\ new_facts[1].end = new_facts[2].start
  /\ new_facts[2].end = Dt(now)
  /\ new_facts[1].end # Dt(now)

----
\* The first fact of the batch came in with no end and the first pass has
\* been entered.
FirstEndMissing ==
  /\ orig_facts # <<>>
  /\ orig_facts[1].end = None
  /\ pc \notin {"call", "clock"}

\* C25 as stated: a batch whose first fact has no end fails as a
\* precondition when ongoing_okay is false and is accepted when it is true.
C25_Original ==
  FirstEndMissing => (pc = "asserted" <=> ~ongoing_okay)

\* C25: ongoing_okay does not gate a missing end on the first new fact. A
\* batch whose first fact has no end fails a precondition only when
\* ongoing_okay is false and the antecedent is an open stored fact and the
\* batch is that one fact and there is no subsequent; in every other case,
\* with ongoing_okay false as with true, it is accepted and the blank pass
\* fills the end.
C25_OpenEndedGatesAntecedent ==
  FirstEndMissing =>
    /\ pc = "asserted" <=>
         (~ongoing_okay /\ OpenAntecedent /\ Len(orig_facts) = 1
            /\ seqt_fact = NoStored)
    /\ Len(seeds) >= 3 => IsDatetime(new_facts[1].end)

\* With ongoing_okay false a fact with no end is resolved and saved.
C25_Witness ==
  /\ FirstEndMissing
  /\ ~ongoing_okay
  /\ pc = "saved"
  /\ saved = new_facts
  /\ IsDatetime(new_facts[1].end)

----
\* C26: a start or end that is a concrete datetime on entry keeps its value
\* to the end of the run; a step changes a field only from blank or from a
\* string to a concrete datetime, so each such field is assigned at most
\* once; the sanity pass changes no field.
C26_ConcreteNeverOverwritten ==
  [][\A i \in 1..Len(new_facts) : \A which \in {"start", "end"} :
       /\ IsDatetime(getattr(orig_facts[i], which)) =>
            getattr(new_facts'[i], which) = getattr(orig_facts[i], which)
       /\ getattr(new_facts'[i], which) # getattr(new_facts[i], which) =>
            /\ ~IsDatetime(getattr(new_facts[i], which))
            /\ IsDatetime(getattr(new_facts'[i], which))
            /\ pc \in {"clock", "delta", "blank"}]_vars

\* A batch with a concrete start, a clock-time end, a blank start and a
\* concrete end, after the four passes: the two given times are as given.
C26_Witness ==
  /\ FourPassesDone
  /\ orig_facts = <<[start |-> Dt(At(1, 10, 0)), end |-> Clock(10 * MinutesPerHour + 30)],
                    [start |-> None, end |-> Dt(At(1, 11, 0))]>>
  /\ new_facts = <<[start |-> Dt(At(1, 10, 0)), end |-> Dt(At(1, 10, 30))],
                   [start |-> Dt(At(1, 10, 30)), end |-> Dt(At(1, 11, 0))]>>

----
AnchorLookups == {"antecedent", "subsequent"}

\* C27: store.antecedent and store.subsequent are called only in the one
\* step that finds the anchors, while every field of the batch is as it
\* came in, and the anchors do not change after that step; when the batch
\* holds no concrete time on entry (or is empty) neither is called, both
\* anchors are absent and every pass starts with prev_time absent,
\* whatever the store holds.
C27_AnchorsFixedOnce ==
  [][/\ (store_calls' \cap AnchorLookups) # (store_calls \cap AnchorLookups) =>
          pc = "call" /\ new_facts = orig_facts
     /\ pc # "call" => ante_fact' = ante_fact /\ seqt_fact' = seqt_fact
     /\ ConcreteAt(orig_facts) = {} =>
          /\ store_calls' \cap AnchorLookups = {}
          /\ ante_fact' = NoStored /\ seqt_fact' = NoStored
          /\ \A n \in 1..Len(seeds') : seeds'[n] = None]_vars

\* A batch of "+30" with a blank end over a store of three facts: no
\* lookup, no anchor, and the four passes start with no prev_time.
C27_Witness ==
  /\ FourPassesDone
  /\ orig_facts = <<[start |-> Plus(30), end |-> None]>>
  /\ Cardinality(store) = 3
  /\ store_calls \cap AnchorLookups = {}
  /\ ante_fact = NoStored /\ seqt_fact = NoStored
  /\ seeds = <<None, None, None, None>>

----
\* The end of the fact before new fact i: of the previous fact of the
\* batch, or of the antecedent for the first fact.
PrecedingEnd(i) ==
  IF i > 1 THEN new_facts[i - 1].end
  ELSE IF ante_fact # NoStored THEN ante_fact.end
  ELSE None

\* C28: once the blank pass is over, a start that was blank is equal to the
\* end of the fact before it (the previous fact of the batch, the
\* antecedent for the first fact) whenever that end is a concrete
\* datetime; a blank end followed by a blank start have the same time.
C28_GaplessBlankFill ==
  (pc = "sanity" \/ FourPassesDone) =>
    \A i \in 1..Len(new_facts) :
      orig_facts[i].start = None =>
        /\ IsDatetime(PrecedingEnd(i)) => new_facts[i].start = PrecedingEnd(i)
        /\ (i > 1 /\ orig_facts[i - 1].end = None) =>
             /\ IsDatetime(new_facts[i].start)
             /\ new_facts[i].start = new_facts[i - 1].end

\* A blank end followed by a blank start before an end of 11:00: both are
\* 11:00.
C28_Witness ==
  /\ pc = "sanity"
  /\ orig_facts = <<[start |-> Dt(At(1, 10, 0)), end |-> None],
                    [start |-> None, end |-> Dt(At(1, 11, 0))]>>
  /\ new_facts[1].end = Dt(At(1, 11, 0))
  /\ new_facts[2].start = Dt(At(1, 11, 0))

----
\* C29: at the end of the four passes a field that is still a clock time
\* or a delta (its own pass failed on it) has exactly two conflicts, first
\* the one of its own pass and then 'could not translate relative date' of
\* the blank pass; a field holding a string that is neither has exactly
\* one, the latter.
C29_FailedFieldReportedTwice ==
  FourPassesDone =>
    \A i \in 1..Len(new_facts) : \A which \in {"start", "end"} :
      LET x == getattr(new_facts[i], which)
          own == ConflictsWith(i, which, FailureOf(x))
          late == ConflictsWith(i, which, "Could not translate relative date")
      IN  /\ (x.k = "clock" \/ IsDelta(x)) =>
               /\ Cardinality(ConflictsOf(i, which)) = 2
               /\ Cardinality(own) = 1 /\ Cardinality(late) = 1
               /\ \A n \in own : \A m \in late : n < m
          /\ x.k = "text" =>
               /\ Cardinality(ConflictsOf(i, which)) = 1
               /\ Cardinality(late) = 1

\* "10:30" with no anchor and a leftover string: two conflicts for the
\* start, one for the end.
C29_Witness ==
  /\ FourPassesDone
  /\ new_facts = <<[start |-> Clock(10 * MinutesPerHour + 30), end |-> Text]>>
  /\ conflicts = <<Conflict(1, NoFact, "Could not decipher clock time", "start"),
                   CouldNotTranslate(1, "start"), CouldNotTranslate(1, "end")>>

----
\* The fact of mend_facts_times as new_fact_fill_now leaves it.
MendFilledFact == new_fact_fill_now(mend.orig, mend.time_hint, now).fact

MendInserted ==
  /\ "insert_forcefully" \in store_calls
  /\ mend.conflicts = insert_forcefully(store, MendFilledFact)

\* C30: the steps of mend_facts_times come in one order.  Before the
\* store is asked the fact is already filled from now and nothing was
\* asked; the range is validated only after insert_forcefully was called
\* on the filled fact; when the validation raises (end before start) the
\* call has been made, the fact is as the fill left it and nothing is
\* returned; the end of an open fact is None, and the conflicts of the
\* call are returned, only after a validation that passed.
C30_MendStepOrder ==
  /\ pc \in {"mend", "mend_asserted"} =>
       /\ "insert_forcefully" \notin store_calls
       /\ mend.fact = mend.orig /\ mend.returned = <<>>
  /\ pc = "mend_insert" =>
       /\ "insert_forcefully" \notin store_calls
       /\ mend.fact = MendFilledFact /\ mend.returned = <<>>
  /\ pc = "mend_validate" =>
       /\ MendInserted
       /\ mend.fact = MendFilledFact /\ mend.returned = <<>>
  /\ pc = "mend_raised" =>
       /\ MendInserted
       /\ ~validate_start_end_range(MendFilledFact)
       /\ mend.fact = MendFilledFact /\ mend.returned = <<>>
  /\ pc = "mend_reset" =>
       /\ MendInserted
       /\ validate_start_end_range(MendFilledFact)
       /\ mend.fact = MendFilledFact /\ mend.returned = <<>>
  /\ pc = "mend_returned" =>
       /\ MendInserted
       /\ validate_start_end_range(MendFilledFact)
       /\ mend.fact = IF mend.leave_open THEN [MendFilledFact EXCEPT !.end = None]
                      ELSE MendFilledFact
       /\ mend.returned = <<mend.conflicts>>

\* Both times given, the start after the end: the store was asked, then
\* the validation raised.
C30_Witness ==
  /\ pc = "mend_raised"
  /\ mend.time_hint = "verify_both"
  /\ mend.orig = [start |-> Dt(At(1, 11, 0)), end |-> Dt(At(1, 10, 0))]
  /\ "insert_forcefully" \in store_calls
  /\ mend.conflicts # {}

====
